---- MODULE Spec2Model ----
(***************************************************************************)
(* The Hickory Kampala coursework repository: the dataset builder          *)
(* (scraper.py) and the Streamlit classifier front end (app.py).           *)
(*                                                                         *)
(* Text is modelled by TLA+ strings, which are sequences of characters:    *)
(* Len, SubSeq and \o act on them as Python's len, slicing and + do.       *)
(* A string of the model holds the characters U+0000 to U+00FF (Latin-1);  *)
(* the string primitives below do on them what Python does.                *)
(***************************************************************************)
EXTENDS Integers, Sequences, FiniteSets, TLC

\* ------------------------------------------------------------------------
\* Python string primitives used by both programs
\* ------------------------------------------------------------------------

\* s[i-1] in Python terms: the i-th character as a one-character string.
Ch(s, i) == SubSeq(s, i, i)

UpperAlpha == "ABCDEFGHIJKLMNOPQRSTUVWXYZ"
LowerAlpha == "abcdefghijklmnopqrstuvwxyz"
DigitChars == {"0", "1", "2", "3", "4", "5", "6", "7", "8", "9"}

\* The characters that str.strip() removes and that the regex class \s of a
\* str pattern matches (those of str.isspace()): tab, line feed, vertical
\* tab, form feed, carriage return, U+001C to U+001F, space, U+0085 and the
\* no-break space U+00A0.
VT == ""
FS == ""
GS == ""
RS == ""
US == ""
NEL == ""
NBSP == " "
Whitespace ==
  {" ", "\t", "\n", "\r", "\f", VT, FS, GS, RS, US, NEL, NBSP}

\* The cased letters of U+00C0 to U+00FE, upper case and lower case in the
\* same order (U+00D7 and U+00F7 are signs, not letters).
UpperLatin == "ÀÁÂÃÄÅÆÇÈÉÊËÌÍÎÏÐÑÒÓÔÕÖØÙÚÛÜÝÞ"
LowerLatin == "àáâãäåæçèéêëìíîïðñòóôõöøùúûüýþ"
UpperLetters == UpperAlpha \o UpperLatin
LowerCased == LowerAlpha \o LowerLatin

\* str.lower() of one character: the 56 characters it changes.
LowerMap ==
  [c \in {Ch(UpperLetters, i) : i \in 1..Len(UpperLetters)} |->
     Ch(LowerCased,
        CHOOSE i \in 1..Len(UpperLetters) : Ch(UpperLetters, i) = c)]

\* str.upper() of one character: the lower-case letters, and the sharp s,
\* which becomes two letters.
UpperMap ==
  [c \in {Ch(LowerCased, i) : i \in 1..Len(LowerCased)} \cup {"ß"} |->
     IF c = "ß" THEN "SS"
     ELSE Ch(UpperLetters,
             CHOOSE i \in 1..Len(LowerCased) : Ch(LowerCased, i) = c)]

\* A text with a character outside Latin-1 is a sequence of pieces: a piece
\* is a string of Latin-1 characters or the name of a character outside
\* Latin-1, written as in Python source.  These are the two such
\* characters that upper-casing a Latin-1 text can give.
U0178 == "\\u0178"
U039C == "\\u039c"

\* str.upper() of the two Latin-1 characters whose upper-case form is
\* outside Latin-1.
UpperOutsideLatin1 == [c \in {"ÿ", "µ"} |-> IF c = "ÿ" THEN U0178 ELSE U039C]

LowerChar(c) == IF c \in DOMAIN LowerMap THEN LowerMap[c] ELSE c
\* str.upper() of one character, as a piece.
UpperChar(c) ==
  IF c \in DOMAIN UpperMap THEN UpperMap[c]
  ELSE IF c \in DOMAIN UpperOutsideLatin1 THEN UpperOutsideLatin1[c]
  ELSE c
\* The title-case form str.capitalize() gives the first character, as a
\* piece.
TitleChar(c) == IF c = "ß" THEN "Ss" ELSE UpperChar(c)

RECURSIVE lower(_)
\* str.lower(): every cased character replaced by its lowercase form
\* (computed by halves, which keeps the evaluation shallow).
lower(s) ==
  IF Len(s) = 0 THEN ""
  ELSE IF Len(s) = 1 THEN LowerChar(s)
  ELSE lower(SubSeq(s, 1, Len(s) \div 2))
         \o lower(SubSeq(s, Len(s) \div 2 + 1, Len(s)))

\* str.lstrip(): the text from its first non-whitespace character on.
lstrip(s) ==
  IF \A i \in 1..Len(s) : Ch(s, i) \in Whitespace THEN ""
  ELSE SubSeq(s,
              CHOOSE i \in 1..Len(s) :
                /\ Ch(s, i) \notin Whitespace
                /\ \A j \in 1..(i - 1) : Ch(s, j) \in Whitespace,
              Len(s))

\* str.rstrip(): the text up to its last non-whitespace character.
rstrip(s) ==
  IF \A i \in 1..Len(s) : Ch(s, i) \in Whitespace THEN ""
  ELSE SubSeq(s, 1,
              CHOOSE i \in 1..Len(s) :
                /\ Ch(s, i) \notin Whitespace
                /\ \A j \in (i + 1)..Len(s) : Ch(s, j) \in Whitespace)

\* str.strip(): leading and trailing whitespace removed, the inside kept.
strip(s) == rstrip(lstrip(s))

\* str.capitalize(): first character title-cased, the rest lower-cased.
\* The result is a string, or a text in pieces when its first character is
\* outside Latin-1.
capitalize(s) ==
  IF s = "" THEN ""
  ELSE IF Ch(s, 1) \in DOMAIN UpperOutsideLatin1
       THEN IF Len(s) = 1 THEN <<TitleChar(Ch(s, 1))>>
            ELSE <<TitleChar(Ch(s, 1)), lower(SubSeq(s, 2, Len(s)))>>
       ELSE TitleChar(Ch(s, 1)) \o lower(SubSeq(s, 2, Len(s)))

\* str.startswith / the `in` operator on strings.
StartsWith(s, p) == Len(s) >= Len(p) /\ SubSeq(s, 1, Len(p)) = p
Contains(s, p) ==
  \E i \in 0..(Len(s) - Len(p)) : SubSeq(s, i + 1, i + Len(p)) = p

RECURSIVE CollapseRange(_, _, _)
\* The part of re.sub(r"\s+", " ", s) that comes from s[lo..hi]: a character
\* that is not whitespace stays, the first character of a run of whitespace
\* becomes one space, the rest of the run goes.
CollapseRange(s, lo, hi) ==
  IF lo > hi THEN ""
  ELSE IF lo = hi
       THEN IF Ch(s, lo) \notin Whitespace THEN Ch(s, lo)
            ELSE IF lo > 1 /\ Ch(s, lo - 1) \in Whitespace THEN ""
            ELSE " "
  ELSE CollapseRange(s, lo, (lo + hi) \div 2)
         \o CollapseRange(s, (lo + hi) \div 2 + 1, hi)

\* re.sub(r"\s+", " ", s)
CollapseWhitespace(s) == CollapseRange(s, 1, Len(s))

\* ------------------------------------------------------------------------
\* scraper.py: constants
\* ------------------------------------------------------------------------

BASE_URL == "https://thehickorykampala.com"

\* PAGES, in the insertion order a Python dict iterates in.
PAGES ==
  << [name |-> "home",    path |-> "/"],
     [name |-> "food",    path |-> "/food/"],
     [name |-> "drinks",  path |-> "/drinks/"],
     [name |-> "wines",   path |-> "/wines/"],
     [name |-> "cake",    path |-> "/cake/"],
     [name |-> "events",  path |-> "/category/events/"],
     [name |-> "contact", path |-> "/contact-us/"] >>

\* One compiled pattern of NOISE_RE.  `start` is a leading ^, `end` a
\* trailing $, `alts` the literal alternatives of the body, `digits` marks
\* the body \d+ .  All patterns are compiled with re.IGNORECASE.
Pat(start, alts, end) ==
  [start |-> start, alts |-> alts, end |-> end, digits |-> FALSE]

NOISE_PATTERNS ==
  << Pat(TRUE, <<"lorem ipsum">>, FALSE),
     Pat(TRUE, <<"food drinks wines">>, FALSE),
     Pat(TRUE, <<"drinks wines">>, FALSE),
     Pat(TRUE, <<"wines all drinks">>, FALSE),
     Pat(TRUE, <<"cake events">>, FALSE),
     Pat(TRUE, <<"food / food">>, FALSE),
     Pat(TRUE, <<"drinks / drinks">>, FALSE),
     Pat(TRUE, <<"wines / wines">>, FALSE),
     Pat(TRUE, <<"cake / cake">>, FALSE),
     Pat(TRUE, <<"contact us sed">>, FALSE),
     Pat(TRUE, <<"/ food", "/ drinks", "/ wines", "/ cake", "/ events">>, FALSE),
     Pat(TRUE, <<"follow us">>, TRUE),
     Pat(TRUE, <<"view menu">>, TRUE),
     Pat(TRUE, <<"see more">>, TRUE),
     Pat(TRUE, <<"all drinks">>, TRUE),
     Pat(TRUE, <<"events">>, TRUE),
     Pat(TRUE, <<"gallery">>, TRUE),
     Pat(TRUE, <<"contact us">>, TRUE),
     Pat(TRUE, <<"food menu">>, TRUE),
     Pat(TRUE, <<"drinks menu">>, TRUE),
     Pat(TRUE, <<"cake menu">>, TRUE),
     Pat(TRUE, <<"exquisite recipes">>, TRUE),
     Pat(TRUE, <<"specials">>, TRUE),
     Pat(TRUE, <<"cocktail">>, TRUE),
     Pat(TRUE, <<"o'clock">>, TRUE),
     Pat(TRUE, <<"search">>, TRUE),
     Pat(TRUE, <<"menu">>, TRUE),
     Pat(TRUE, <<"home">>, TRUE),
     Pat(TRUE, <<"food">>, TRUE),
     Pat(TRUE, <<"drinks">>, TRUE),
     Pat(TRUE, <<"wines">>, TRUE),
     Pat(TRUE, <<"cake">>, TRUE),
     Pat(TRUE, <<"designed by">>, FALSE),
     Pat(TRUE, <<"copyright">>, FALSE),
     Pat(FALSE, <<"©">>, FALSE),
     Pat(FALSE, <<"designed by fortitude">>, FALSE),
     Pat(TRUE, <<"sed tincidunt">>, FALSE),
     Pat(TRUE, <<"get in touch">>, FALSE),
     Pat(TRUE, <<"opening hours">>, FALSE),
     Pat(TRUE, <<"reservation">>, TRUE),
     Pat(TRUE, <<"book a table">>, FALSE),
     Pat(TRUE, <<"make a reservation">>, FALSE),
     [start |-> TRUE, alts |-> <<>>, end |-> TRUE, digits |-> TRUE] >>

\* The literal that is_noise looks for inside the text.
NAV_BAR_TEXT == "Food Drinks Wines All Drinks Cake Events"

\* The column names save_to_csv writes as the header row.
fieldnames == <<"source_page", "category", "item_name", "description", "price">>

PRIMARY_PATH == "Omoding.csv"
FALLBACK_PATH == "Omoding_new.csv"

\* The literal list `descriptions` of build_comprehensive_dataset.
descriptions ==
  << "The Hickory is an upscale restaurant and lounge located in Kololo Kampala Uganda known as The Woody Wine and Dine",
     "The Hickory draws inspiration from the hickory tree symbolizing strength competence adventure and a spirit of fortitude",
     "The hickory tree was historically used in wagon wheels tool handles and early aircraft construction representing durability and quality",
     "The Hickory gained rapid popularity following its opening challenging established high-end establishments in Kampala",
     "The restaurant offers international European fusion cuisine with signature dishes and an extensive cocktail and wine selection",
     "The Hickory features contemporary stylish ambiance with both indoor and garden seating areas",
     "The restaurant provides free Wi-Fi outdoor seating takeaway services and disabled access",
     "The Hickory participates in Kampala Restaurant Week with special menus and incentives",
     "The Hickory is known for its charming ambiance and garden-like setting particularly beautiful at night",
     "Located at Plot 11 Ngabo Road Kololo Kampala Uganda the restaurant operates from 8am to 11pm everyday",
     "The Hickory offers reservation services event hosting and catering for special occasions",
     "The restaurant features a Monthly Chefs Specials program with rotating specialty dishes",
     "Cocktail Oclock is a signature experience at The Hickory featuring their handcrafted cocktail menu",
     "The Hickory maintains an active social media presence on Facebook Twitter Instagram and TripAdvisor",
     "Contact The Hickory at phone number +256 758 809 187 or email info@thehickorykampala.com" >>

\* The literal list `food_items` of build_comprehensive_dataset.
food_items ==
  << <<"Starters and Soups", "Cheese Croquettes", "Mixed cheese cubes coated in breadcrumbs and lightly fried served as a vegetarian starter", "26">>,
     <<"Starters and Soups", "Avocado Prawns", "Base of lettuce prawns and avocado in cocktail sauce a fresh seafood appetizer", "36">>,
     <<"Starters and Soups", "Chilli-garlic Prawns", "Fresh shrimp pan-fried with chilli and garlic finished with lemon and herbs on toasted bread", "36">>,
     <<"Starters and Soups", "Cashew Chicken", "Stir-fried chicken with roasted cashew nuts in brown-garlic sauce an Asian-inspired starter", "34">>,
     <<"Starters and Soups", "Barbeque Beef Meatballs", "Ground beef with garlic coriander and onions baked and coated in barbeque sauce", "35">>,
     <<"Starters and Soups", "Pumpkin Soup", "Roasted spiced pumpkin soup with celery butter garlic and coriander a vegetarian option", "25">>,
     <<"Starters and Soups", "Mongolian Beef Strips", "Flank steak tossed in Mongolian sauce and sweet peppers an Asian-inspired appetizer", "34">>,
     <<"Starters and Soups", "Hickory Barbeque Chicken Wings", "Buffalo chicken wings with Asian condiments and spicy barbeque glaze", "35">>,
     <<"Starters and Soups", "Frittura Di Calamari", "Deep-fried calamari served with tartar sauce an Italian-style seafood starter", "28">>,
     <<"Starters and Soups", "Tempura Prawns", "Deep-fried butter-coated prawns with honey-mayonnaise glaze a Japanese-inspired dish", "36">>,
     <<"Starters and Soups", "Bacon-wrapped Steak Bites", "Beef fillet cubes wrapped in bacon baked and served with salad", "30">>,
     <<"Starters and Soups", "Fresh Soup of The Day", "Daily freshly prepared soup ask server for details", "23">>,
     <<"Starters and Soups", "Bisquick Chicken Tenders", "Crispy chicken breast strips coated in breadcrumbs served with sweet-chilli sauce", "32">>,
     <<"Starters and Soups", "Wingstop Garlic-parmesan Wings", "Chicken wings with garlic and Parmesan sauce a savoury appetizer", "35">>,
     <<"Salads", "Hickory Organic Salad", "Cucumber bell peppers olives tomatoes lettuce carrots onions with lemon and vinaigrette a vegetarian option", "30">>,
     <<"Salads", "Greek Salad", "Lettuce onions cucumber peppers tomatoes olives and feta cheese a classic Mediterranean vegetarian salad", "38">>,
     <<"Salads", "Chicken Caesar Salad", "Romaine lettuce anchovies croutons grilled chicken breast and Caesar dressing", "40">>,
     <<"Salads", "Mixed Sea Food Salad", "Salmon shrimp and calamari on lettuce with cherry tomatoes and cucumber", "49">>,
     <<"Salads", "Cobb Salad", "Grilled chicken breast avocado tomatoes eggs bacon cheddar cheese with shallot vinaigrette", "44">>,
     <<"Salads", "Prawn Mango and Avocado Salad", "Fresh lettuce tomatoes mango topped with herbed prawns and cocktail dressing", "45">>,
     <<"Curries", "Thai Coconut Curry Vegetables", "Fresh cilantro basil coriander and coconut milk with steamed vegetables served with rice vegetarian", "40">>,
     <<"Curries", "Thai Coconut Curry Beef", "Fresh cilantro basil coriander and coconut milk with beef fillet served with steamed rice", "47">>,
     <<"Curries", "Thai Coconut Curry Chicken", "Fresh cilantro basil coriander and coconut milk with chicken fillet served with steamed rice", "49">>,
     <<"Curries", "Thai Coconut Curry Tilapia", "Fresh cilantro basil coriander and coconut milk with tilapia fillet served with steamed rice", "49">>,
     <<"Curries", "Thai Coconut Curry Salmon", "Fresh cilantro basil coriander and coconut milk with salmon fillet served with steamed rice", "62">>,
     <<"Curries", "Thai Green Curry Vegetables", "Cilantro lemon grass galangal chillies and kaffir lime with steamed vegetables vegetarian", "40">>,
     <<"Curries", "Thai Green Curry Beef", "Cilantro lemon grass galangal chillies and kaffir lime with beef fillet served with rice", "47">>,
     <<"Curries", "Thai Green Curry Chicken", "Cilantro lemon grass galangal chillies and kaffir lime with chicken fillet served with rice", "49">>,
     <<"Curries", "Thai Green Curry Tilapia", "Cilantro lemon grass galangal chillies and kaffir lime with tilapia fillet served with rice", "49">>,
     <<"Curries", "Thai Green Curry Salmon", "Cilantro lemon grass galangal chillies and kaffir lime with salmon fillet served with rice", "62">>,
     <<"Curries", "Thai Chilli-Basil Curry Vegetables", "Garlic sweet peppers onions and basil with steamed vegetables vegetarian", "40">>,
     <<"Curries", "Thai Chilli-Basil Curry Beef", "Garlic sweet peppers onions and basil with beef fillet served with steamed rice", "47">>,
     <<"Curries", "Thai Chilli-Basil Curry Chicken", "Garlic sweet peppers onions and basil with chicken fillet served with steamed rice", "49">>,
     <<"Curries", "Goat Curry", "Boneless goat leg cubes in traditional curry sauce served with steamed rice a local favourite", "50">>,
     <<"Burgers", "Classic Chicken Burger", "Grilled free-range chicken patty with lettuce cheese onions tomatoes mayonnaise served with chips and salad", "49">>,
     <<"Burgers", "Hickory Inspirational Beef Burger", "Grilled beef patty with lettuce cheese onions tomatoes mayonnaise served with crispy chips and garden salad", "49">>,
     <<"Burgers", "Lake Victoria Fish Burger", "Crumbed tilapia fillet with tomatoes onion rings lettuce and Thousand Island dressing served with chips", "47">>,
     <<"Burgers", "Vegetable Burger", "Organic vegetables with caramelised French onions a vegetarian burger served with chips and salad", "43">>,
     <<"Burgers", "Gourmet Italian Burger", "Ground beef and pork blend with mozzarella cheese basil and marinara sauce served with chips", "55">>,
     <<"Butchers Choice", "Beef Fillet Steak", "Organic beef fillet with steamed vegetables and choice of Bearnaise mushroom peppercorn or Arrabbiata sauce with parsley potatoes", "53">>,
     <<"Butchers Choice", "T-Bone Steak", "500g marinated with thyme and garlic grilled and served with peppercorn sauce and potato wedges", "70">>,
     <<"Butchers Choice", "Beef Fillet Steak In Gorgonzola Sauce", "Grilled beef fillet with creamy gorgonzola sauce crispy bacon and grilled onion rings with lyonnaise potatoes", "56">>,
     <<"Butchers Choice", "Bacon-Wrapped Beef Filet", "Beef fillet wrapped in bacon stuffed with cheese and mushrooms served with creamy spinach mushroom sauce and lyonnaise potatoes", "55">>,
     <<"Pasta and Risotto", "Philly Cheesesteak Pasta", "Beef fillet strips with fusilli pasta bell peppers and gorgonzola cheese", "50">>,
     <<"Pasta and Risotto", "Lasagne Al Forno", "Traditional silky pasta sheets coated in Bolognese and bechamel topped with mozzarella and Grana Padano", "50">>,
     <<"Pasta and Risotto", "Homemade Spaghetti Bolognese", "Spaghetti in classic beef Bolognese sauce a traditional Italian favourite", "47">>,
     <<"Pasta and Risotto", "Spaghetti Alla Carbonara", "Pasta with crispy bacon cooking cream egg yolks and Parmesan cheese served with garlic bread", "52">>,
     <<"Pasta and Risotto", "Tuscan Chicken Pasta", "Penne pasta in creamy spinach sauce with chicken strips and sun-dried tomatoes topped with Grana Padano", "50">>,
     <<"Pasta and Risotto", "Creamy Tomato Risotto With Meatballs", "Italian rice in creamy tomato sauce with beef meatballs topped with Parmesan", "53">>,
     <<"Pasta and Risotto", "Linguine Chicken-Bacon Alfredo", "Classic Italian pasta in creamy garlic sauce with chicken breast chunks topped with bacon and Grana Padano", "51">>,
     <<"Pasta and Risotto", "Risotto Ai Fruitti Di Mare", "Risotto rice tossed with shrimp and calamari a seafood Italian classic", "53">>,
     <<"Pasta and Risotto", "Risotto In Fresh Ugandan Vegetables", "Traditional Italian rice tossed with steamed vegetables a vegetarian risotto", "49">>,
     <<"Pasta and Risotto", "Penne Arrabbiata", "Penne in spicy tomato sauce topped with basil and Parmesan a vegetarian pasta", "45">>,
     <<"Pasta and Risotto", "Lasagne Alla Verdure", "Pasta layered with Ugandan vegetables bechamel Parmesan and baked a vegetarian lasagne", "46">>,
     <<"Pasta and Risotto", "Hickory Steak Pasta", "Tomato and basil linguine topped with beef fillet steak and Grana Padano", "50">>,
     <<"Pasta and Risotto", "Chicken and Coconut Tomato Pasta", "Penne pasta with grilled chicken breast strips coconut cream and tomato sauce", "50">>,
     <<"Mains", "Ugandan Organic Pork Chops", "Grilled pork chops on creamy sukuma-wiki served with mushroom sauce and fried plantain a local Ugandan dish", "54">>,
     <<"Mains", "Pork Ribs", "Spiced pork ribs baked until golden-brown served with choice of barbeque pesto or mushroom sauce and fried plantain", "57">>,
     <<"Mains", "Baked Nile Perch Fillet", "Lake Victoria Nile perch marinated and baked on creamy spinach served with mushroom sauce and mashed potatoes", "49">>,
     <<"Mains", "Tuscan Smothered Pork Chops", "Juicy pork chops in homemade creamy Tuscan sauce served with fried plantain", "56">>,
     <<"Mains", "Hickory Special Grilled Chicken Breast Stuffed With Spinach", "Marinated chicken breast wrapped in bacon stuffed with spinach and mozzarella with mushroom sauce steamed vegetables and rice", "50">>,
     <<"Mains", "Tilapia Florentine", "Grilled tilapia fillet on creamy spinach with choice of tomato-cashew nut mushroom tomato-basil or coconut sauce with rice", "53">>,
     <<"Mains", "Grilled Half In-Bone Chicken", "Rosemary oregano and honey-marinated chicken served with mushroom sauce handpicked vegetables and crispy chips", "52">>,
     <<"Mains", "Grilled Chicken Breast", "Skinless chicken breast with choice of Puttanesca mushroom peanut coconut or Cioppino sauce with vegetable rice", "50">>,
     <<"Mains", "Creamy Chicken Cordon Bleu", "Breaded chicken breast stuffed with ham and cheese topped with Dijon sauce served with lyonnaise potatoes", "52">>,
     <<"Mains", "Hickory Carnival Platter", "Mixed grill of quarter chicken mini beef fillet steak chicken skewers and pork skewers with mushroom sauce and potato wedges", "62">>,
     <<"Mains", "Fillet Of Salmon", "Grilled Norwegian salmon fillet with steamed vegetables and tomato-cashew nut sauce served with vegetable rice", "75">>,
     <<"Mains", "Jumbo Prawns", "Grilled jumbo prawns marinated with garlic butter and lemon served with garden salad tartar sauce and crispy chips", "72">>,
     <<"Mains", "Pan-Seared Tilapia On A Bed Of Pasta", "Grilled tilapia fillet on linguine pasta in pesto sauce served with steamed vegetables", "54">>,
     <<"Mains", "Chilli-Lime Steak Fajita", "Beef fillet marinated with Moroccan spices in chilli-lime sauce served with avocado slices and mashed potatoes", "56">>,
     <<"Mains", "Creamy Tuscan Salmon Fillet", "Pan-seared Norwegian salmon fillet in homemade creamy Tuscan sauce served with risotto rice", "79">>,
     <<"Mains", "Zippy Breaded Pork Chops", "Boneless pork chops coated in breadcrumbs and deep-fried served with mushroom sauce and masala chips", "56">>,
     <<"Mains", "Bacon-Wrapped Tilapia", "Lake Victoria tilapia fillet wrapped in bacon and grilled served with white wine-caper sauce and mashed potatoes", "55">>,
     <<"Desserts", "Organic Fruit Salad With Ice Cream", "Fresh organic fruit salad served with scoops of ice cream a light and refreshing dessert", "18">>,
     <<"Desserts", "Tiramisu", "Classic Italian coffee-flavoured dessert made with layers of mascarpone and espresso-soaked ladyfingers", "30">>,
     <<"Desserts", "Cake of The Day Slice", "Daily selection of freshly baked cake ask your server for todays special flavour", "22">>,
     <<"Desserts", "Creme Brulee", "Classic French custard dessert with a caramelised sugar crust", "25">>,
     <<"Desserts", "New York Cheesecake", "Rich and creamy New York style cheesecake a classic American dessert", "30">>,
     <<"Desserts", "Chocolate Fondant", "Warm chocolate cake with a molten chocolate center a rich indulgent dessert", "29">>,
     <<"Desserts", "Apple Crumble Tart", "Baked apple tart with a buttery crumble topping served warm", "30">>,
     <<"Desserts", "Scoops of Ice Cream", "Two scoops of premium ice cream in your choice of flavour", "15">>,
     <<"Desserts", "Nutty Caramel and Chocolate Sundae", "Ice cream sundae with caramel nuts and chocolate sauce", "22">> >>

\* The literal list `sauces` of build_comprehensive_dataset.
sauces ==
  << "Tuscan",
     "mushroom",
     "peppercorn",
     "pesto",
     "arrabbiata",
     "peanut",
     "coconut",
     "barbeque",
     "Dijon",
     "Puttanesca",
     "tartar",
     "bearnaise",
     "gorgonzola",
     "tomato-basil",
     "white wine-caper",
     "Cioppino",
     "tomato-cashew nut",
     "chilli-lime" >>

\* The literal list `sides` of build_comprehensive_dataset.
sides ==
  << "Steamed vegetables",
     "garden-fresh salad",
     "crispy chips",
     "steamed rice",
     "vegetable rice",
     "mashed potatoes",
     "potato wedges",
     "parsley potatoes",
     "avocado",
     "lyonnaise potatoes",
     "masala chips",
     "fried plantain",
     "creamy spinach" >>

\* The literal list `drinks_items` of build_comprehensive_dataset.
drinks_items ==
  << <<"Coffees", "Espresso Single", "Single shot of espresso a classic Italian coffee", "7">>,
     <<"Coffees", "Espresso Double", "Double shot of espresso for a stronger coffee experience", "10">>,
     <<"Coffees", "Cappuccino Single", "Single shot cappuccino with steamed milk and foam", "9">>,
     <<"Coffees", "Cappuccino Double", "Double shot cappuccino with steamed milk and foam", "12">>,
     <<"Coffees", "Mocha Latte", "Espresso with chocolate and steamed milk a sweet coffee drink", "12">>,
     <<"Coffees", "Macchiato", "Espresso marked with a dollop of foamed milk", "8">>,
     <<"Coffees", "Cafe Latte", "Espresso with steamed milk smooth and creamy coffee", "9">>,
     <<"Coffees", "Americano Single", "Single espresso diluted with hot water a classic black coffee", "8">>,
     <<"Coffees", "Americano Double", "Double espresso diluted with hot water for a stronger black coffee", "12">>,
     <<"Coffees", "Hot Chocolate", "Rich creamy hot chocolate drink", "12">>,
     <<"Coffees", "African Coffee", "Traditional African-style brewed coffee with local spices", "12">>,
     <<"Teas", "Black Tea Plain", "Simple plain black tea served hot", "8">>,
     <<"Teas", "Chai Latte", "Spiced tea with steamed milk an aromatic warm drink", "12">>,
     <<"Teas", "Black Tea Spiced", "Black tea infused with traditional spices", "8">>,
     <<"Teas", "African Tea Spiced", "African-style spiced tea with local herbs and spices", "9">>,
     <<"Teas", "Dawa Tea", "Kenyan honey and lemon tea known for soothing and healing properties", "14">>,
     <<"Teas", "Herbal Tea", "Caffeine-free herbal infusion tea", "12">>,
     <<"Beers and Ciders", "Local Beer", "Ugandan locally brewed beer", "8">>,
     <<"Beers and Ciders", "Local Cider", "Ugandan locally produced cider", "8">>,
     <<"Beers and Ciders", "Imported Cider", "Premium imported cider", "12">>,
     <<"Beers and Ciders", "Imported Beer", "Premium imported beer", "12">>,
     <<"Cold Beverages", "Fresh Juice", "Freshly squeezed fruit juice", "12">>,
     <<"Cold Beverages", "Soda", "Soft drink carbonated beverage", "4">>,
     <<"Cold Beverages", "Diet Coke", "Sugar-free diet cola", "5">>,
     <<"Cold Beverages", "Still Water", "Still mineral water", "4">>,
     <<"Cold Beverages", "Red Bull", "Energy drink", "12">>,
     <<"Cold Beverages", "Iced Coffee", "Chilled coffee drink served over ice", "15">>,
     <<"Cold Beverages", "Ice Tea", "Chilled tea drink refreshing and light", "10">>,
     <<"Cold Beverages", "Milkshake", "Creamy blended milkshake in various flavours", "18">>,
     <<"Cold Beverages", "Smoothie", "Fresh fruit smoothie blended with ice", "22">>,
     <<"Cold Beverages", "Sparkling Water", "Carbonated sparkling mineral water", "6">>,
     <<"Cocktails", "Appletini", "Sweet refreshing martini drink in green apple flavour", "24">>,
     <<"Cocktails", "Cosmopolitan", "Equal part of vodka and triple sec plus fresh cranberry juice a classic cocktail", "24">>,
     <<"Cocktails", "Dry Martini", "Traditional aperitif cocktail best enjoyed before meals elegant and strong", "24">>,
     <<"Cocktails", "Hickopolitan", "Cosmopolitan variant with a minty twist a Hickory signature cocktail", "24">>,
     <<"Cocktails", "Classic Margarita", "Mexican tequila thirst-quencher with triple sec and freshly squeezed lime juice", "26">>,
     <<"Cocktails", "Old Fashioned", "Mix of sweet Merlot and Bourbon whiskey a timeless classic cocktail", "35">>,
     <<"Cocktails", "Absolut Paradise", "Raspberry-based cocktail infused with fresh berries fruity and refreshing", "24">>,
     <<"Cocktails", "Rose and Basil", "Gin-based cocktail with hints of rosemary and basil herbal and aromatic", "24">>,
     <<"Cocktails", "Lady in Red", "London gin with strawberry and grapes finishing a fruity gin cocktail", "24">>,
     <<"Cocktails", "Red Sangria", "Iced punch with fruit infusion and red wine a Spanish classic", "25">>,
     <<"Cocktails", "White Sangria", "Iced punch with fruit infusion and white wine refreshing", "25">>,
     <<"Cocktails", "Whiskey Sour", "Sweet and sour cocktail with pineapple texture made with whiskey", "28">>,
     <<"Cocktails", "Cookie Monster", "Baileys Irish cream freakshake with cookies and chocolate an indulgent dessert cocktail", "23">>,
     <<"Cocktails", "Mojito", "Cuban classic with rum mint sugar and lime juice refreshing and minty", "22">>,
     <<"Cocktails", "Long Island Iced Tea", "Multiple spirits mixed into a potent cocktail that looks like iced tea", "30">>,
     <<"Cocktails", "Frosty Deep Pool", "Five different spirits and red bull a strong and energizing cocktail", "32">>,
     <<"Cocktails", "Bulago Island Breeze", "Fruity punch with Uganda waragi pineapple a locally inspired tropical cocktail", "25">>,
     <<"Cocktails", "Watermelon Smash", "Vodka with whisky liqueur and fresh watermelon juice refreshing and fruity", "24">>,
     <<"Cocktails", "Mai Tai", "Quality rum infused in tropical fruit juice a Polynesian classic cocktail", "24">>,
     <<"Cocktails", "Queen Slayer", "Amarula chocolate sauce and spiced rum a sweet and creamy cocktail", "24">>,
     <<"Cocktails", "Jumping Jack", "Jack Daniels honey whiskey with ginger ale a smooth whiskey cocktail", "24">>,
     <<"Cocktails", "Genie in a Goblet", "Gin and tonic with mint liqueur and fresh mint a refreshing gin cocktail", "24">>,
     <<"Cocktails", "Sexy Back", "Passion and berries-infused beauty made with vodka fruity and vibrant", "24">>,
     <<"Cocktails", "Cherry Kisses", "Vodka-based raspberry cocktail sweet and berry-flavoured", "26">>,
     <<"Cocktails", "Negroni", "Campari sweet vermouth and gin a classic Italian bitter cocktail", "25">>,
     <<"Cocktails", "Bay Breeze", "Uganda waragi coconut with Smirnoff vodka a tropical cocktail", "24">>,
     <<"Cocktails", "Amber Shades of Hickory", "Fruit and booze combination a signature Hickory cocktail", "24">>,
     <<"Cocktails", "Purple Dove", "Vodka blue curacao cointreau and strawberries a colourful cocktail", "24">>,
     <<"Cocktails Pitcher", "Hickory Ocean Breeze", "Coconut rum blue curacao liqueur and lemonade served in a pitcher for sharing", "70">>,
     <<"Cocktails Pitcher", "Strawberry Basil Fizz", "Strawberries basil and lemonade served in a pitcher for groups", "70">>,
     <<"Cocktails Pitcher", "Sangria Pitcher", "Iced punch with fruit infusion and wine served in a pitcher", "70">>,
     <<"Cocktails Pitcher", "Hickory Checkmate", "Melon-flavoured with vodka rose wine and fresh fruits served in a pitcher", "70">>,
     <<"Softails Non-Alcoholic", "Sweet Sun Rise", "Tropical punch non-alcoholic refreshing fruit beverage", "18">>,
     <<"Softails Non-Alcoholic", "Virgin Colada", "Coconut refresher with pineapple juice a non-alcoholic pina colada", "20">>,
     <<"Softails Non-Alcoholic", "Virgin Mojito", "Non-alcoholic mojito with mint lime and soda refreshing and light", "20">>,
     <<"Softails Non-Alcoholic", "Tropical Fruit Crash", "Baristas choice tropical fruits blended with ice a refreshing non-alcoholic smoothie", "18">>,
     <<"Softails Non-Alcoholic", "Minty Pineapple", "Fresh pineapple juice and mint leaves a simple refreshing drink", "15">>,
     <<"Softails Non-Alcoholic", "Green Detox", "Avocado bananas mangoes celery and spinach smoothie a healthy non-alcoholic option", "20">>,
     <<"Shooters", "B52", "Layered shooter cocktail with coffee liqueur Irish cream and Grand Marnier", "10">>,
     <<"Shooters", "Blow Job", "Sweet layered shooter with Irish cream and whipped cream", "12">>,
     <<"Shooters", "Slippery Nipple", "Smooth shooter with sambuca and Irish cream", "10">>,
     <<"Shooters", "Jagerbomb", "Jagermeister dropped into Red Bull an energizing shooter", "15">> >>

\* The literal list `wine_items` of build_comprehensive_dataset.
wine_items ==
  << <<"White Wines", "Rooiberg Winery Chardonnay", "Vibrant and elegant South African white wine with French oak leaves revealing pear-drop aromas", "90">>,
     <<"White Wines", "Herxheim Am Berg Sauvignon Blanc Trocken", "German dry Sauvignon Blanc white wine crisp and refreshing", "135">>,
     <<"White Wines", "Hill and Dale Sauvignon Blanc", "South African Sauvignon Blanc with fresh citrus and tropical notes", "105">>,
     <<"White Wines", "KWV Classic Collection Sauvignon Blanc", "South African classic Sauvignon Blanc crisp and aromatic", "90">>,
     <<"White Wines", "Zonin Pinot Grigio Friuli Aquileia", "Italian Pinot Grigio from Friuli light and refreshing white wine", "105">>,
     <<"White Wines", "Calvet Varietals Sauvignon Blanc", "French Sauvignon Blanc with delicate floral and citrus notes", "100">>,
     <<"White Wines", "Nederburg Chardonnay", "South African Chardonnay full-bodied and buttery", "105">>,
     <<"White Wines", "Zonin 20 Ventiterre Moscato", "Italian Moscato sweet and aromatic sparkling white wine", "120">>,
     <<"White Wines", "Jacobs Creek Classic Chardonnay", "Australian Chardonnay with ripe fruit and oak flavours", "110">>,
     <<"White Wines", "Landskroon Chardonnay", "Premium South African Chardonnay complex and elegant", "160">>,
     <<"White Wines", "Simonsig Sunbird Sauvignon Blanc", "South African Sauvignon Blanc with tropical fruit and citrus flavours", "120">>,
     <<"Red Wines", "Alvis Drift Merlot", "South African Merlot smooth and medium-bodied red wine", "130">>,
     <<"Red Wines", "Eikendal Cabernet Sauvignon", "Premium South African Cabernet Sauvignon full-bodied and rich", "370">>,
     <<"Red Wines", "Rooiberg Winery Cabernet Sauvignon", "South African Cabernet Sauvignon with dark fruit and oak notes", "90">>,
     <<"Red Wines", "KWV Classic Collection Shiraz", "South African Shiraz bold and spicy red wine", "100">>,
     <<"Red Wines", "Castello Di Albola Chianti Classico", "Italian Chianti Classico from Tuscany a classic Italian red wine", "210">>,
     <<"Red Wines", "Zonin 20 Ventiterre Chianti", "Italian Chianti medium-bodied with cherry and herb notes", "110">>,
     <<"Red Wines", "Caro Aruma Malbec", "Argentinian Malbec by Catena and Rothschild full-bodied and rich", "170">>,
     <<"Red Wines", "Nederburg Winemaster Pinotage", "South African Pinotage a unique grape variety with smoky berry flavours", "130">>,
     <<"Red Wines", "Jacobs Creek Double Barrel Shiraz", "Australian Shiraz aged in whisky barrels for extra depth and complexity", "210">>,
     <<"Red Wines", "Calvet Varietals Cabernet Sauvignon", "French Cabernet Sauvignon with blackcurrant and cedar notes", "105">>,
     <<"Red Wines", "Kumala Reserve Malbec", "South African Malbec rich and fruity red wine", "110">>,
     <<"Red Wines", "Penfolds Koonunga Hill Cabernet Sauvignon", "Australian Cabernet Sauvignon from the renowned Penfolds winery", "200">>,
     <<"Sparkling Wines", "Zonin Prosecco Cuvee 1821", "Italian Prosecco sparkling wine light and celebratory", "140">>,
     <<"Sparkling Wines", "JP Chenet Blanc De Blancs Brut", "French sparkling brut wine crisp and refreshing bubbles", "110">>,
     <<"Sparkling Wines", "Luc Belaire Luxe", "Premium French sparkling wine luxurious and elegant", "250">>,
     <<"Champagne", "Moet and Chandon Imperial Brut", "Premium French Champagne house classic Brut elegant and prestigious", "480">>,
     <<"Champagne", "Veuve Clicquot Brut", "Iconic French Champagne known for its consistent quality and golden colour", "580">>,
     <<"Champagne", "Dom Perignon Brut", "Prestigious vintage French Champagne the ultimate luxury celebration wine", "1500">>,
     <<"Rose Wines", "KWV Classic Collection Rose", "South African Rose wine light and fruity pink wine", "90">>,
     <<"Rose Wines", "Nederburg Rose", "South African Rose fresh and berry-flavoured", "90">>,
     <<"Rose Wines", "Exhib Cap Dagde Rose", "French Rose wine from southern France dry and refreshing", "90">> >>

\* The literal list `cake_items` of build_comprehensive_dataset.
cake_items ==
  << <<"Cakes", "Carrot Cake", "Classic carrot cake with cream cheese frosting moist and spiced", "120">>,
     <<"Cakes", "Chocolate Cake", "Rich chocolate cake with chocolate frosting a classic indulgent dessert", "120">>,
     <<"Cakes", "Coconut Cake", "Moist coconut cake with coconut cream frosting tropical and sweet", "120">>,
     <<"Cakes", "Fruit Cake", "Traditional fruit cake packed with dried fruits and nuts", "140">>,
     <<"Cakes", "Lemon Cake", "Zesty lemon cake with lemon glaze refreshing citrus flavour", "120">>,
     <<"Cakes", "Strawberry Cake", "Fresh strawberry cake with strawberry cream frosting light and fruity", "120">>,
     <<"Cakes", "Vanilla Cake", "Classic vanilla sponge cake with vanilla buttercream frosting", "120">>,
     <<"Cakes", "Vanilla Cheesecake", "Rich and creamy vanilla cheesecake with a biscuit base", "160">>,
     <<"Cakes", "Black Forest Cake", "German chocolate and cherry cake with whipped cream layers", "120">>,
     <<"Cakes", "White Forest Cake", "White chocolate and cherry cake with whipped cream a lighter version of Black Forest", "120">>,
     <<"Cakes", "Chocolate Fudge Cake", "Dense and rich chocolate fudge cake with thick chocolate fudge frosting", "140">>,
     <<"Cakes", "Red Velvet Cake", "Classic red velvet cake with cream cheese frosting moist and vibrant", "120">>,
     <<"Cakes", "White Chocolate Cake", "Delicate white chocolate cake with white chocolate frosting elegant and sweet", "120">> >>

\* The literal list `reviews` of build_comprehensive_dataset.
reviews ==
  << <<"positive", "One of the best steaks I have ever had in Kampala and the fudgy dessert tasted fantastic definitely coming back">>,
     <<"positive", "Great food excellent customer service and the environment is really romantic and breath taking">>,
     <<"positive", "All the food was amazing and it tasted great the ambiance is perfect for a date night">>,
     <<"positive", "Exceptional ambiance cleanliness and spacious layout the restaurant is incredibly inviting and well-maintained">>,
     <<"positive", "Really charming restaurant and bar with swift polite and comfortable service">>,
     <<"positive", "The staff are exceptional and extremely accommodating they made our dining experience memorable">>,
     <<"positive", "Good selection of wines from South Africa Italy and France paired perfectly with the food">>,
     <<"positive", "The cocktail menu is impressive with unique signature drinks like the Hickopolitan and Bulago Island Breeze">>,
     <<"positive", "Perfect spot for family dinner and birthday celebrations the event hosting is wonderful">>,
     <<"positive", "The garden setting is beautiful especially at night with great lighting and ambiance">>,
     <<"negative", "The menu selection was extremely limited and not suitable for vegetarians very disappointed">>,
     <<"negative", "Disappointed with the small amounts of food served for the price not good value">>,
     <<"negative", "Very bad service lunch was delayed for an hour and a half unacceptable waiting time">>,
     <<"negative", "Inconsistent service and parking challenges made the visit frustrating">>,
     <<"positive", "The Hickory has become one of the top restaurants in Kampala their fusion cuisine is exceptional">>,
     <<"positive", "Loved the Thai coconut curry and the grilled salmon both were perfectly cooked and seasoned">>,
     <<"positive", "The wine list is extensive and well-curated with options from multiple countries and price ranges">>,
     <<"positive", "Great value for money compared to other upscale restaurants in Kampala">>,
     <<"positive", "The tiramisu and chocolate fondant are must-try desserts absolutely delicious">>,
     <<"positive", "Beautiful interior design with a woody theme that creates a warm and cozy atmosphere">>,
     <<"neutral", "Good food but the restaurant can get quite loud during peak hours on weekends">>,
     <<"neutral", "The portions are decent but could be larger for the price point">>,
     <<"positive", "The Lake Victoria fish burger is one of the best fish burgers in Kampala using fresh tilapia">>,
     <<"positive", "Love the Hickory Carnival Platter perfect for sharing with a group of friends">>,
     <<"negative", "Parking is very limited especially on weekends plan to arrive early or use a ride service">>,
     <<"positive", "The Monthly Chefs Specials keep things interesting always something new to try">>,
     <<"positive", "The breakfast menu is great and they open early at 8am perfect for morning meetings">>,
     <<"positive", "The Nile perch fillet is a must-try showcasing the best of Ugandan local fish">>,
     <<"positive", "Cocktail Oclock is a great experience with well-crafted drinks and a lively atmosphere">>,
     <<"positive", "The pork ribs are fall-off-the-bone tender and the barbeque sauce is homemade perfection">> >>

\* The literal list `services` of build_comprehensive_dataset.
services ==
  << "The Hickory offers dine-in services with indoor air-conditioned seating and outdoor garden seating",
     "Reservation services available for individuals groups and special events",
     "Event hosting and catering services for birthdays corporate events and celebrations",
     "Takeaway and food packaging services available for all menu items",
     "Free Wi-Fi available for all dining guests",
     "Disabled access and wheelchair-friendly facilities provided",
     "Full bar service with licensed premises for alcoholic beverages",
     "Cake ordering service with custom sizes available in 1kg 1.5kg and 2kg options",
     "Monthly Chef Specials featuring rotating seasonal dishes and new creations",
     "Cocktail Oclock signature experience with handcrafted cocktails and lounge atmosphere",
     "Open daily from 8am to 11pm seven days a week including public holidays",
     "Located in the upscale Kololo neighbourhood of Kampala near major hotels and embassies",
     "The restaurant is designed by Fortitude Solutions with a contemporary woody theme interior" >>
\* ------------------------------------------------------------------------
\* scraper.py: text cleaning and the noise filter
\* ------------------------------------------------------------------------

\* The text of an element of a page can hold the six characters outside
\* Latin-1 that clean_text names.  It is a text in pieces: a piece is a
\* string of Latin-1 characters or the name of one of the six characters,
\* written as in the source.
U2019 == "\\u2019"
U2018 == "\\u2018"
U201C == "\\u201c"
U201D == "\\u201d"
U2013 == "\\u2013"
U2014 == "\\u2014"

\* text.replace(old, new) for one of the six characters and the ASCII
\* character that takes its place.
replace(text, old, new) ==
  [i \in 1..Len(text) |-> IF text[i] = old THEN new ELSE text[i]]

RECURSIVE Concat(_)
\* The string a text without the six characters is: its pieces in a row.
Concat(text) ==
  IF text = <<>> THEN "" ELSE text[1] \o Concat(Tail(text))

\* clean_text without the re.sub that collapses whitespace.
clean_text_strip_only(text) ==
  IF \A i \in 1..Len(text) : text[i] = "" THEN ""
  ELSE LET quotes == replace(replace(text, U2019, "'"), U2018, "'")
           dquotes == replace(replace(quotes, U201C, "\""), U201D, "\"")
           dashes == replace(replace(dquotes, U2013, "-"), U2014, "-")
       IN strip(Concat(dashes))

\* clean_text(text): the six str.replace calls, the re.sub that turns every
\* run of whitespace into one space, and the strip.
clean_text(text) ==
  IF \A i \in 1..Len(text) : text[i] = "" THEN ""
  ELSE LET quotes == replace(replace(text, U2019, "'"), U2018, "'")
           dquotes == replace(replace(quotes, U201C, "\""), U201D, "\"")
           dashes == replace(replace(dquotes, U2013, "-"), U2014, "-")
       IN strip(CollapseWhitespace(Concat(dashes)))

\* `$` of a pattern compiled without re.MULTILINE: the end of the string,
\* or just before a newline that ends the string.
AtEnd(u, pos) ==
  \/ pos = Len(u)
  \/ pos = Len(u) - 1 /\ Ch(u, Len(u)) = "\n"

\* r.search(t) for one pattern r of NOISE_RE, given u = t lower-cased
\* (re.IGNORECASE against the lower-case literals of NOISE_PATTERNS).
Search(pat, u) ==
  IF pat.digits
  THEN \E n \in 1..Len(u) :
         /\ \A i \in 1..n : Ch(u, i) \in DigitChars
         /\ AtEnd(u, n)
  ELSE \E k \in 1..Len(pat.alts) :
         \E i \in (IF pat.start THEN {0} ELSE 0..(Len(u) - Len(pat.alts[k]))) :
           /\ i + Len(pat.alts[k]) <= Len(u)
           /\ SubSeq(u, i + 1, i + Len(pat.alts[k])) = pat.alts[k]
           /\ pat.end => AtEnd(u, i + Len(pat.alts[k]))

\* The length below which is_noise rejects a text outright.
MIN_TEXT_LEN == 15

\* is_noise(text) with the `len(t) < 15` test replaced by `len(t) < 10`.
is_noise_short10(text) ==
  LET t == strip(text) IN
    IF Len(t) < 10 THEN TRUE
    ELSE IF \E k \in 1..Len(NOISE_PATTERNS) : Search(NOISE_PATTERNS[k], lower(t))
    THEN TRUE
    ELSE IF Contains(t, NAV_BAR_TEXT) THEN TRUE
    ELSE FALSE

\* is_noise(text)
is_noise(text) ==
  LET t == strip(text) IN
    IF Len(t) < MIN_TEXT_LEN THEN TRUE
    ELSE IF \E k \in 1..Len(NOISE_PATTERNS) : Search(NOISE_PATTERNS[k], lower(t))
    THEN TRUE
    ELSE IF Contains(t, NAV_BAR_TEXT) THEN TRUE
    ELSE FALSE

\* ------------------------------------------------------------------------
\* scraper.py: fetched documents and the three page scrapers
\* ------------------------------------------------------------------------

\* What fetch_page returns: None, or a parsed document.  A document is the
\* list of its elements in document order; each element carries its tag
\* name, the tag names of its ancestors, its class list and get_text(),
\* a text in pieces.
None == [is_none |-> TRUE, elems |-> <<>>]
Soup(elems) == [is_none |-> FALSE, elems |-> elems]
El(name, parents, class, text) ==
  [name |-> name, parents |-> parents, class |-> class, text |-> text]

Row(source_page, category, item_name, description, price) ==
  [source_page |-> source_page, category |-> category,
   item_name |-> item_name, description |-> description, price |-> price]

\* soup.find_all(names)
find_all(soup, names) == SelectSeq(soup.elems, LAMBDA e : e.name \in names)

\* elem.find_parent(["nav", "footer", "header"]) is not None
InNavFooterHeader(e) == e.parents \cap {"nav", "footer", "header"} # {}

RECURSIVE JoinSpace(_)
\* " ".join(list)
JoinSpace(list) ==
  IF list = <<>> THEN ""
  ELSE IF Len(list) = 1 THEN list[1]
  ELSE list[1] \o " " \o JoinSpace(Tail(list))

\* The class-name test of scrape_menu_page.
HasSkipClass(e) ==
  LET parent_classes == JoinSpace(e.class) IN
    \E skip \in {"nav", "footer", "menu-item", "widget"} :
      Contains(lower(parent_classes), skip)

\* The test every scraper applies to the cleaned text of an element.
Keeps(e) ==
  LET text == clean_text(e.text) IN text # "" /\ ~is_noise(text)

\* scrape_home(soup)
scrape_home(soup) ==
  IF soup.is_none THEN <<>>
  ELSE LET kept == SelectSeq(find_all(soup, {"p", "blockquote"}), Keeps)
       IN [i \in 1..Len(kept) |->
             Row("home", "description", "", clean_text(kept[i].text), "")]

\* scrape_menu_page(soup, page_name)
scrape_menu_page(soup, page_name) ==
  IF soup.is_none THEN <<>>
  ELSE LET kept == SelectSeq(find_all(soup, {"p", "li"}),
                     LAMBDA e : /\ ~InNavFooterHeader(e)
                                /\ ~HasSkipClass(e)
                                /\ Keeps(e))
       IN [i \in 1..Len(kept) |->
             Row(page_name, capitalize(page_name), "",
                 clean_text(kept[i].text), "")]

\* scrape_contact(soup)
scrape_contact(soup) ==
  IF soup.is_none THEN <<>>
  ELSE LET kept == SelectSeq(find_all(soup, {"p", "address"}),
                     LAMBDA e : ~InNavFooterHeader(e) /\ Keeps(e))
       IN [i \in 1..Len(kept) |->
             Row("contact", "location_info", "", clean_text(kept[i].text), "")]

\* The dispatch on page_name inside the loop of build_comprehensive_dataset.
ScrapePage(page_name, soup) ==
  IF page_name = "home" THEN scrape_home(soup)
  ELSE IF page_name = "contact" THEN scrape_contact(soup)
  ELSE scrape_menu_page(soup, page_name)

\* The rows build_comprehensive_dataset appends after the scraping loop,
\* block by block in the order of the source.
EnrichmentRows ==
  [i \in 1..Len(descriptions) |->
     Row("about", "restaurant_description", "The Hickory Kampala",
         descriptions[i], "")]
  \o [i \in 1..Len(food_items) |->
     Row("food", food_items[i][1], food_items[i][2], food_items[i][3],
         food_items[i][4])]
  \o [i \in 1..Len(sauces) |->
     Row("food", "Sauces", sauces[i] \o " sauce",
         sauces[i] \o " sauce available as an accompaniment to main dishes and steaks",
         "10")]
  \o [i \in 1..Len(sides) |->
     Row("food", "Sides", sides[i],
         sides[i] \o " served as a side dish accompaniment to main courses",
         "12")]
  \o [i \in 1..Len(drinks_items) |->
     Row("drinks", drinks_items[i][1], drinks_items[i][2], drinks_items[i][3],
         drinks_items[i][4])]
  \o [i \in 1..Len(wine_items) |->
     Row("wines", wine_items[i][1], wine_items[i][2], wine_items[i][3],
         wine_items[i][4])]
  \o [i \in 1..Len(cake_items) |->
     Row("cake", cake_items[i][1], cake_items[i][2], cake_items[i][3],
         cake_items[i][4])]
  \o [i \in 1..Len(reviews) |->
     Row("reviews", "customer_review_" \o reviews[i][1], "", reviews[i][2], "")]
  \o [i \in 1..Len(services) |->
     Row("services", "services_offered", "", services[i], "")]

\* ------------------------------------------------------------------------
\* scraper.py: the deduplication loop of __main__
\* ------------------------------------------------------------------------

\* DedupKey without the call of lower().
DedupKey_nolower(row) == strip(row.description)

\* The dedup key of a row: row["description"].strip().lower()
DedupKey(row) == lower(strip(row.description))

\* The shortest key length the loop keeps is MIN_KEY_LEN + 1.
MIN_KEY_LEN == 5

\* DedupStep that never records the key in `seen`.
DedupStep_forgets(st, row) ==
  LET desc == DedupKey(row) IN
    IF desc \notin st.seen /\ Len(desc) > MIN_KEY_LEN
    THEN [seen |-> st.seen,
          unique_data |-> Append(st.unique_data, row)]
    ELSE st

\* DedupStep with `len(desc) > 5` turned into `len(desc) >= 5`.
DedupStep_ge5(st, row) ==
  LET desc == DedupKey(row) IN
    IF desc \notin st.seen /\ Len(desc) >= MIN_KEY_LEN
    THEN [seen |-> st.seen \cup {desc},
          unique_data |-> Append(st.unique_data, row)]
    ELSE st

\* DedupStep that keeps the row with its description replaced by the key.
DedupStep_emits_key(st, row) ==
  LET desc == DedupKey(row) IN
    IF desc \notin st.seen /\ Len(desc) > MIN_KEY_LEN
    THEN [seen |-> st.seen \cup {desc},
          unique_data |-> Append(st.unique_data,
                                 [row EXCEPT !.description = desc])]
    ELSE st

\* The body of the loop `for row in all_data`, run for one row on the loop
\* state st = [seen, unique_data].
DedupStep(st, row) ==
  LET desc == DedupKey(row) IN
    IF desc \notin st.seen /\ Len(desc) > MIN_KEY_LEN
    THEN [seen |-> st.seen \cup {desc},
          unique_data |-> Append(st.unique_data, row)]
    ELSE st

\* ------------------------------------------------------------------------
\* scraper.py: output files
\* ------------------------------------------------------------------------

NoFile == [exists |-> FALSE, header |-> <<>>, records |-> <<>>]

\* What save_to_csv leaves in the file: the header row, then one record per
\* row with the values in the order of fieldnames.
CsvFile(data) ==
  [exists |-> TRUE,
   header |-> fieldnames,
   records |-> [i \in 1..Len(data) |->
                  [j \in 1..Len(fieldnames) |-> data[i][fieldnames[j]]]]]

\* What open(filename, "w") leaves before anything is written: the file is
\* there (created, or emptied of what it held) and has no line.
EmptyFile == [exists |-> TRUE, header |-> <<>>, records |-> <<>>]

\* An output file left by an earlier run of the script.
OLD_OUTPUT ==
  CsvFile(<< [source_page |-> "home", category |-> "description",
              item_name |-> "",
              description |-> "A row written by an earlier run of the script",
              price |-> ""] >>)

\* The working directory the script can be started in: without output
\* files, or with the primary file of an earlier run.
Directories ==
  {[p \in {PRIMARY_PATH, FALLBACK_PATH} |->
      IF p = PRIMARY_PATH THEN f ELSE NoFile] : f \in {NoFile, OLD_OUTPUT}}

\* Most records that are whole in the file when a write fails.  A write can
\* fail after any number of bytes; the file then holds the lines that
\* reached it whole.
MaxWritten == 4

Min(a, b) == IF a <= b THEN a ELSE b

WriteErrors == {"PermissionError", "OSError"}

\* How a call save_to_csv(data, filename) can end: normally, or with an
\* exception raised by open() (`opened` is FALSE, the file is not touched)
\* or raised after open() by a write, a flush or the close (the file holds
\* `lines` whole lines: none, the header, the header and some records).
WriteOutcomes(data) ==
  {[result |-> "ok", opened |-> TRUE, lines |-> Len(data) + 1]}
    \cup {[result |-> e, opened |-> FALSE, lines |-> 0] : e \in WriteErrors}
    \cup {[result |-> e, opened |-> TRUE, lines |-> n] :
            e \in WriteErrors, n \in 0..(Min(Len(data), MaxWritten) + 1)}

\* save_to_csv(data, filename): the file at filename after a call that
\* ended as o, `file` being what was there before.
save_to_csv(file, data, o) ==
  IF ~o.opened THEN file
  ELSE IF o.lines = 0 THEN EmptyFile
  ELSE CsvFile(SubSeq(data, 1, o.lines - 1))

\* ------------------------------------------------------------------------
\* Pages the site can serve
\* ------------------------------------------------------------------------

HomeDoc ==
  << El("p", {}, <<>>,
        <<"The  Hickory is Kampala", U2019,
          "s upscale restaurant and lounge ", U2013,
          " located in\nKololo" \o NBSP \o VT \o "Uganda ", U2014,
          " known as ", U201C, "The Woody Wine and Dine", U201D,
          " or ", U2018, "the Woody", U2019, " " \o NBSP>>),
     El("blockquote", {}, <<>>, <<"THE WOODY WINE AND DINE of Kololo">>),
     El("p", {}, <<>>, <<"Food Drinks Wines All Drinks Cake Events">>),
     El("p", {}, <<>>, <<"View Menu">>),
     El("li", {}, <<>>, <<"Grilled salmon fillet with creamy Tuscan sauce">>),
     El("p", {}, <<>>, <<"  \n " \o NBSP>>) >>

MenuDoc ==
  << El("li", {}, <<>>, <<"Grilled salmon fillet with creamy Tuscan sauce">>),
     El("li", {"ul", "nav"}, <<>>, <<"Our signature cocktails and fine wines">>),
     El("p", {}, <<"lead", "Footer-Widget">>, <<"Visit us for the monthly chef specials">>),
     El("p", {"div"}, <<"lead">>, <<"grilled salmon  fillet with creamy tuscan sauce">>),
     El("p", {}, <<>>, <<"© 2024 The Hickory Kampala">>),
     El("div", {}, <<>>, <<"A div that holds the text of the whole page">>) >>

ContactDoc ==
  << El("address", {}, <<>>, <<"Plot 11 Ngabo Road\nKololo  Kampala Uganda">>),
     El("p", {"footer"}, <<>>, <<"Call +256 758 809 187 for reservations">>),
     El("p", {}, <<>>, <<"Get in touch with our team today">>),
     El("p", {}, <<>>, <<"Email info@thehickorykampala.com">>) >>

EmptyDoc == <<>>

\* The documents a successful fetch of the named page can return.
PageDocs(page_name) ==
  IF page_name = "home" THEN {HomeDoc, EmptyDoc}
  ELSE IF page_name = "contact" THEN {ContactDoc}
  ELSE {MenuDoc}

\* fetch_page(url): None after a requests.RequestException, else the document.
FetchOutcomes(page_name) == {None} \cup {Soup(d) : d \in PageDocs(page_name)}

\* ------------------------------------------------------------------------
\* app.py: text normalisation (preprocess)
\* ------------------------------------------------------------------------

RECURSIVE UpperRun(_)
\* str.upper() of a text whose upper-case form is in Latin-1 (computed by
\* halves).
UpperRun(s) ==
  IF Len(s) = 0 THEN ""
  ELSE IF Len(s) = 1 THEN UpperChar(s)
  ELSE UpperRun(SubSeq(s, 1, Len(s) \div 2))
         \o UpperRun(SubSeq(s, Len(s) \div 2 + 1, Len(s)))

RECURSIVE UpperPieces(_)
\* str.upper() of a text, in pieces: the runs of characters whose
\* upper-case form is in Latin-1, and between them the upper-case forms
\* that are not.
UpperPieces(s) ==
  LET wide == {i \in 1..Len(s) : Ch(s, i) \in DOMAIN UpperOutsideLatin1}
  IN IF wide = {}
     THEN IF s = "" THEN <<>> ELSE <<UpperRun(s)>>
     ELSE LET i == CHOOSE k \in wide : \A j \in wide : k <= j
          IN (IF i = 1 THEN <<>> ELSE <<UpperRun(SubSeq(s, 1, i - 1))>>)
               \o <<UpperChar(Ch(s, i))>>
               \o UpperPieces(SubSeq(s, i + 1, Len(s)))

\* str.upper().  The result is a string, or a text in pieces when one of
\* its characters is outside Latin-1.
upper(s) ==
  IF \A i \in 1..Len(s) : Ch(s, i) \notin DOMAIN UpperOutsideLatin1
  THEN UpperRun(s)
  ELSE UpperPieces(s)

LowerLetters == {Ch(LowerAlpha, i) : i \in 1..26}

RECURSIVE BlankNonLetters(_)
\* re.sub(r'[^a-z\s]', ' ', text): every character that is neither a
\* lower-case letter nor whitespace becomes a space.
BlankNonLetters(s) ==
  IF Len(s) = 0 THEN ""
  ELSE IF Len(s) = 1
       THEN IF s \in LowerLetters \/ s \in Whitespace THEN s ELSE " "
  ELSE BlankNonLetters(SubSeq(s, 1, Len(s) \div 2))
         \o BlankNonLetters(SubSeq(s, Len(s) \div 2 + 1, Len(s)))

\* text.split(" ") for a text of words separated by single spaces: the words
\* between the positions of the spaces.
SplitWords(s) ==
  IF s = "" THEN <<>>
  ELSE LET spaces == {i \in 1..Len(s) : Ch(s, i) = " "}
           starts == {1} \cup {i + 1 : i \in spaces}
           EndOf(b) == IF \E i \in spaces : i > b
                       THEN (CHOOSE i \in spaces :
                               i > b /\ \A j \in spaces : j > b => i <= j) - 1
                       ELSE Len(s)
           Nth(n) == CHOOSE b \in starts :
                       Cardinality({c \in starts : c < b}) = n - 1
       IN [n \in 1..Cardinality(starts) |-> SubSeq(s, Nth(n), EndOf(Nth(n)))]

\* The contractions NLTK's word tokenizer splits in two (CONTRACTIONS2 of
\* its MacIntyre list) that can occur in a text of lower-case letters.
CONTRACTIONS2 ==
  << <<"cannot", "can", "not">>, <<"gimme", "gim", "me">>,
     <<"gonna", "gon", "na">>, <<"gotta", "got", "ta">>,
     <<"lemme", "lem", "me">>, <<"wanna", "wan", "na">> >>

RECURSIVE Flatten(_)
Flatten(lists) ==
  IF lists = <<>> THEN <<>> ELSE Head(lists) \o Flatten(Tail(lists))

\* word_tokenize(text) for a text of lower-case letters and single spaces:
\* the words, with the contractions above split.
word_tokenize(text) ==
  LET words == SplitWords(text)
      Split(w) ==
        IF \E k \in 1..Len(CONTRACTIONS2) : CONTRACTIONS2[k][1] = w
        THEN LET k == CHOOSE k \in 1..Len(CONTRACTIONS2) : CONTRACTIONS2[k][1] = w
             IN <<CONTRACTIONS2[k][2], CONTRACTIONS2[k][3]>>
        ELSE <<w>>
  IN Flatten([n \in 1..Len(words) |-> Split(words[n])])

\* stopwords.words('english') of the NLTK corpus.
stop_words ==
  {"i", "me", "my", "myself", "we", "our", "ours", "ourselves", "you",
   "you're", "you've", "you'll", "you'd", "your", "yours", "yourself",
   "yourselves", "he", "him", "his", "himself", "she", "she's", "her",
   "hers", "herself", "it", "it's", "its", "itself", "they", "them",
   "their", "theirs", "themselves", "what", "which", "who", "whom", "this",
   "that", "that'll", "these", "those", "am", "is", "are", "was", "were",
   "be", "been", "being", "have", "has", "had", "having", "do", "does",
   "did", "doing", "a", "an", "the", "and", "but", "if", "or", "because",
   "as", "until", "while", "of", "at", "by", "for", "with", "about",
   "against", "between", "into", "through", "during", "before", "after",
   "above", "below", "to", "from", "up", "down", "in", "out", "on", "off",
   "over", "under", "again", "further", "then", "once", "here", "there",
   "when", "where", "why", "how", "all", "any", "both", "each", "few",
   "more", "most", "other", "some", "such", "no", "nor", "not", "only",
   "own", "same", "so", "than", "too", "very", "s", "t", "can", "will",
   "just", "don", "don't", "should", "should've", "now", "d", "ll", "m",
   "o", "re", "ve", "y", "ain", "aren", "aren't", "couldn", "couldn't",
   "didn", "didn't", "doesn", "doesn't", "hadn", "hadn't", "hasn", "hasn't",
   "haven", "haven't", "isn", "isn't", "ma", "mightn", "mightn't", "mustn",
   "mustn't", "needn", "needn't", "shan", "shan't", "shouldn", "shouldn't",
   "wasn", "wasn't", "weren", "weren't", "won", "won't", "wouldn",
   "wouldn't"}

\* The suffix rules of WordNet's morphy (MORPHOLOGICAL_SUBSTITUTIONS).
VERB_RULES ==
  << <<"s", "">>, <<"ies", "y">>, <<"es", "e">>, <<"es", "">>,
     <<"ed", "e">>, <<"ed", "">>, <<"ing", "e">>, <<"ing", "">> >>
NOUN_RULES ==
  << <<"s", "">>, <<"ses", "s">>, <<"ves", "f">>, <<"xes", "x">>,
     <<"zes", "z">>, <<"ches", "ch">>, <<"shes", "sh">>, <<"men", "man">>,
     <<"ies", "y">> >>

\* The part of WordNet that decides the lemmas of the words of this model:
\* its verb and noun entries among those words and their stems, and its
\* exception lists (verb.exc, noun.exc) for them.
VERB_LEMMAS ==
  {"grill", "mash", "base", "leave", "note", "frost", "cook", "staff",
   "lime", "mint", "cream", "cake", "fruit", "serve", "be", "go", "have",
   "do", "sauce", "own"}
NOUN_LEMMAS ==
  {"grill", "mash", "base", "leave", "leaf", "note", "frost", "frosting",
   "cook", "cooking", "chef", "meal", "staff", "lime", "mint", "cream",
   "cake", "fruit", "oak", "rice", "sauce", "salmon", "cocktail", "potato",
   "beef", "fillet", "mushroom", "vodka", "south", "cabernet", "sauvignon",
   "dark", "restaurant", "ambiance", "red", "velvet", "cheese", "go",
   "wine"}
VERB_EXC ==
  [w \in {"were", "was", "went", "gone", "goes", "had", "did"} |->
     CASE w = "were" -> <<"be">> [] w = "was" -> <<"be">>
       [] w = "goes" -> <<"go">>
       [] w = "went" -> <<"go">> [] w = "gone" -> <<"go">>
       [] w = "had" -> <<"have">> [] w = "did" -> <<"do">>]
NOUN_EXC ==
  [w \in {"potatoes", "leaves"} |->
     CASE w = "potatoes" -> <<"potato">> [] w = "leaves" -> <<"leaf">>]

EndsWith(s, suffix) ==
  Len(s) >= Len(suffix) /\ SubSeq(s, Len(s) - Len(suffix) + 1, Len(s)) = suffix

\* apply_rules(forms) of _morphy: every form with every rule whose suffix
\* it ends with, in the order of the forms and then of the rules.
ApplyRules(forms, rules) ==
  Flatten([n \in 1..Len(forms) |->
             LET applicable ==
                   SelectSeq(rules, LAMBDA r : EndsWith(forms[n], r[1]))
             IN [k \in 1..Len(applicable) |->
                   SubSeq(forms[n], 1, Len(forms[n]) - Len(applicable[k][1]))
                     \o applicable[k][2]]])

\* filter_forms(forms) of _morphy: the forms WordNet has for the part of
\* speech, each once, in the order of their first occurrence.
FilterForms(forms, lemmas) ==
  LET first == {n \in 1..Len(forms) :
                  /\ forms[n] \in lemmas
                  /\ \A k \in 1..(n - 1) : forms[k] # forms[n]}
      Nth(i) == CHOOSE n \in first : Cardinality({k \in first : k < n}) = i - 1
  IN [i \in 1..Cardinality(first) |-> forms[Nth(i)]]

RECURSIVE MorphyLoop(_, _, _)
\* The loop `while forms` of _morphy: the rules are applied again to the
\* forms until one of the new forms is in WordNet or no form is left.
MorphyLoop(forms, rules, lemmas) ==
  IF forms = <<>> THEN <<>>
  ELSE LET next == ApplyRules(forms, rules)
           results == FilterForms(next, lemmas)
       IN IF results # <<>> THEN results
          ELSE MorphyLoop(next, rules, lemmas)

\* wordnet._morphy(word, pos): for a word of the exception list, the word
\* and its exception entries that WordNet has; otherwise the word and the
\* forms the rules give that WordNet has, and when there is none, what the
\* loop finds.
Morphy(word, rules, lemmas, exc) ==
  IF word \in DOMAIN exc
  THEN FilterForms(<<word>> \o exc[word], lemmas)
  ELSE LET forms == ApplyRules(<<word>>, rules)
           results == FilterForms(<<word>> \o forms, lemmas)
       IN IF results # <<>> THEN results
          ELSE MorphyLoop(forms, rules, lemmas)

\* min(forms, key=len): the first of the shortest forms.
Shortest(forms) ==
  forms[CHOOSE i \in 1..Len(forms) :
          /\ \A j \in 1..Len(forms) : Len(forms[i]) <= Len(forms[j])
          /\ \A j \in 1..(i - 1) : Len(forms[j]) > Len(forms[i])]

\* lemmatizer.lemmatize(word, pos): min(lemmas, key=len) if lemmas else word
lemmatize(word, pos) ==
  LET lemmas == IF pos = "v"
                THEN Morphy(word, VERB_RULES, VERB_LEMMAS, VERB_EXC)
                ELSE Morphy(word, NOUN_RULES, NOUN_LEMMAS, NOUN_EXC)
  IN IF lemmas = <<>> THEN word ELSE Shortest(lemmas)

\* preprocess in which the filter keeps a token that passes either test.
preprocess_or_filter(text) ==
  LET t1 == lower(text)
      t2 == BlankNonLetters(t1)
      t3 == strip(CollapseWhitespace(t2))
      tokens == word_tokenize(t3)
      kept_tokens == SelectSeq(tokens, LAMBDA t : t \notin stop_words \/ Len(t) > 2)
      verbs == [n \in 1..Len(kept_tokens) |-> lemmatize(kept_tokens[n], "v")]
      nouns == [n \in 1..Len(verbs) |-> lemmatize(verbs[n], "n")]
  IN JoinSpace(nouns)

\* preprocess(text)
preprocess(text) ==
  LET t1 == lower(text)
      t2 == BlankNonLetters(t1)
      t3 == strip(CollapseWhitespace(t2))
      tokens == word_tokenize(t3)
      kept_tokens == SelectSeq(tokens, LAMBDA t : t \notin stop_words /\ Len(t) > 2)
      verbs == [n \in 1..Len(kept_tokens) |-> lemmatize(kept_tokens[n], "v")]
      nouns == [n \in 1..Len(verbs) |-> lemmatize(verbs[n], "n")]
  IN JoinSpace(nouns)

\* ------------------------------------------------------------------------
\* app.py: the page's fixed data and the model artifacts
\* ------------------------------------------------------------------------

\* CATEGORY_INFO, in the order of the dict.
CATEGORY_INFO ==
  << <<"food", "Food Menu - This text describes a food or meal item">>,
     <<"drinks", "Drinks Menu - This text describes a beverage or cocktail">>,
     <<"wines", "Wine List - This text describes a wine selection">>,
     <<"cake", "Cake Menu - This text describes a cake or bakery item">>,
     <<"reviews", "Customer Review - This text sounds like a customer review">>,
     <<"services", "Services - This text describes a restaurant service">>,
     <<"about", "About / Description - This text describes the restaurant">>,
     <<"home", "General Info - General restaurant information">>,
     <<"contact", "Contact / Location - Location or contact information">>,
     <<"events", "Events - Event-related information">> >>

\* CATEGORY_INFO.get(key): no default, a missing key gives None, shown as
\* an empty text.
CategoryGet_no_default(key, default) ==
  IF \E k \in 1..Len(CATEGORY_INFO) : CATEGORY_INFO[k][1] = key
  THEN CATEGORY_INFO[CHOOSE k \in 1..Len(CATEGORY_INFO) :
                       CATEGORY_INFO[k][1] = key][2]
  ELSE ""

\* CATEGORY_INFO.get(key, default)
CategoryGet(key, default) ==
  IF \E k \in 1..Len(CATEGORY_INFO) : CATEGORY_INFO[k][1] = key
  THEN CATEGORY_INFO[CHOOSE k \in 1..Len(CATEGORY_INFO) :
                       CATEGORY_INFO[k][1] = key][2]
  ELSE default

examples ==
  << "Grilled beef fillet with mushroom sauce and mashed potatoes",
     "Vodka based cocktail with fresh lime and mint leaves",
     "South African Cabernet Sauvignon with dark fruit and oak notes",
     "The restaurant has excellent ambiance and friendly staff",
     "Red velvet cake with cream cheese frosting" >>

WARNING_TEXT == "Please enter some text to classify."

\* What joblib.load can find on disk. The artifacts are not part of the
\* repository: a classifier is known here by whether it has predict_proba
\* and by its classes_ (sorted, as scikit-learn keeps them), and the
\* vectorizer by what it is given.
NoModel == [exists |-> FALSE, has_proba |-> FALSE, classes |-> <<>>]
Model(has_proba, classes) ==
  [exists |-> TRUE, has_proba |-> has_proba, classes |-> classes]
TEN_CLASSES ==
  <<"about", "cake", "contact", "drinks", "events", "food", "home",
    "reviews", "services", "wines">>
THREE_CLASSES == <<"drinks", "food", "menu">>
Models ==
  {Model(TRUE, TEN_CLASSES), Model(FALSE, TEN_CLASSES),
   Model(TRUE, THREE_CLASSES)}
\* best_model.joblib holds a model or is missing; tfidf_vectorizer.joblib
\* is there or is missing.
Artifacts ==
  {[model |-> m, tfidf |-> t] : m \in Models \cup {NoModel}, t \in BOOLEAN}

\* The rows predict_proba can return, in thousandths, one entry per class.
ProbaRows(classes) ==
  IF Len(classes) = 10
  THEN {<<610, 90, 80, 60, 50, 40, 30, 20, 15, 5>>,
        <<20, 30, 300, 100, 50, 300, 40, 100, 50, 10>>,
        <<100, 100, 100, 100, 100, 100, 100, 100, 100, 100>>,
        <<0, 0, 0, 0, 0, 0, 1, 999, 0, 0>>}
  ELSE {<<700, 200, 100>>, <<125, 750, 125>>, <<400, 200, 400>>}

\* f"{p:.1%}" of a probability given in thousandths
Percent(p) == ToString(p \div 10) \o "." \o ToString(p % 10) \o "%"

\* MaxOf that takes the probability of the first class.
MaxOf_first(proba) == proba[1]

\* max(proba)
MaxOf(proba) ==
  proba[CHOOSE i \in 1..Len(proba) : \A j \in 1..Len(proba) : proba[i] >= proba[j]]

\* SortedByProb that sorts by ascending probability.
SortedByProb_ascending(classes, proba) ==
  LET n == Len(proba)
      Rank(i) == Cardinality({j \in 1..n : proba[j] < proba[i]})
                   + Cardinality({j \in 1..(i - 1) : proba[j] = proba[i]}) + 1
  IN [r \in 1..n |->
        LET i == CHOOSE i \in 1..n : Rank(i) = r
        IN <<classes[i], proba[i]>>]

\* sorted(zip(classes, proba), key=lambda x: x[1], reverse=True): by
\* descending probability, equal probabilities keeping their order.
SortedByProb(classes, proba) ==
  LET n == Len(proba)
      Rank(i) == Cardinality({j \in 1..n : proba[j] > proba[i]})
                   + Cardinality({j \in 1..(i - 1) : proba[j] = proba[i]}) + 1
  IN [r \in 1..n |->
        LET i == CHOOSE i \in 1..n : Rank(i) = r
        IN <<classes[i], proba[i]>>]

\* What the page shows and what the script calls.
Out(kind, text) == [kind |-> kind, text |-> text, value |-> 0]
Progress(prob, text) == [kind |-> "progress", text |-> text, value |-> prob]
Call(fn, a) == [fn |-> fn, arg |-> a]
UiEvent(op, a) == [op |-> op, arg |-> a]
\* load_model that returns the model although the vectorizer is missing.
load_model_ignores_tfidf(a) ==
  IF ~a.model.exists
  THEN [raised |-> TRUE, value |-> NoModel,
        calls |-> <<Call("joblib.load", "best_model.joblib")>>]
  ELSE [raised |-> FALSE, value |-> a.model,
        calls |-> <<Call("joblib.load", "best_model.joblib"),
                    Call("joblib.load", "tfidf_vectorizer.joblib")>>]

\* load_model(): the two joblib.load calls in order, the first failure
\* ending the function with its exception.
load_model(a) ==
  IF ~a.model.exists
  THEN [raised |-> TRUE, value |-> NoModel,
        calls |-> <<Call("joblib.load", "best_model.joblib")>>]
  ELSE [raised |-> ~a.tfidf,
        value |-> IF a.tfidf THEN a.model ELSE NoModel,
        calls |-> <<Call("joblib.load", "best_model.joblib"),
                    Call("joblib.load", "tfidf_vectorizer.joblib")>>]

\* classify_text that asks for the probabilities of every classifier, and
\* before it asks for the prediction.
classify_text_proba_first(m, text, processed, prediction, proba) ==
  LET vec == <<processed>>
      result ==
        <<Out("success", "**Predicted Category: " \o upper(prediction) \o "**"),
          Out("markdown", CategoryGet(prediction, prediction))>>
      ranked == SortedByProb(m.classes, proba)
  IN [calls |-> <<Call("preprocess", text), Call("tfidf.transform", vec),
                  Call("model.predict_proba", vec),
                  Call("model.predict", vec)>>,
      screen |-> result
        \o <<Out("markdown", "**Confidence:** " \o Percent(MaxOf(proba))),
             Out("markdown", "#### All Category Probabilities:")>>
        \o [r \in 1..Len(ranked) |->
              Progress(ranked[r][2],
                       ranked[r][1] \o ": " \o Percent(ranked[r][2]))]]

\* classify_text(text), given what preprocess, model.predict and
\* model.predict_proba return for it: the calls it makes and what it
\* renders.
classify_text(m, text, processed, prediction, proba) ==
  LET vec == <<processed>>
      result ==
        <<Out("success", "**Predicted Category: " \o upper(prediction) \o "**"),
          Out("markdown", CategoryGet(prediction, prediction))>>
      ranked == SortedByProb(m.classes, proba)
  IN IF m.has_proba
     THEN [calls |-> <<Call("preprocess", text), Call("tfidf.transform", vec),
                       Call("model.predict", vec),
                       Call("model.predict_proba", vec)>>,
           screen |-> result
             \o <<Out("markdown", "**Confidence:** " \o Percent(MaxOf(proba))),
                  Out("markdown", "#### All Category Probabilities:")>>
             \o [r \in 1..Len(ranked) |->
                   Progress(ranked[r][2],
                            ranked[r][1] \o ": " \o Percent(ranked[r][2]))]]
     ELSE [calls |-> <<Call("preprocess", text), Call("tfidf.transform", vec),
                       Call("model.predict", vec)>>,
           screen |-> result]

\* ------------------------------------------------------------------------
\* State
\* ------------------------------------------------------------------------

VARIABLES
  pc,           \* the statement the script is at
  page_i,       \* position of the loop over PAGES (1-based)
  soup,         \* what the last fetch_page returned
  rows,         \* the list build_comprehensive_dataset is filling
  all_data,     \* its return value
  dedup_i,      \* position of the dedup loop in all_data (1-based)
  seen,         \* the keys the dedup loop has met
  unique_data,  \* the rows the dedup loop kept
  kept,         \* history: the positions of all_data whose row was kept
  fetched,      \* history: what each fetch_page call returned, in order
  files,        \* contents of the two output paths
  log,          \* the script's effects on the outside, in order
  arg,          \* argument of the function applied on its own
  ret,          \* its result
  artifacts,      \* the two artifact files on disk
  cache,          \* what st.cache_resource holds for load_model
  loads,          \* how many times the body of load_model has run
  calls,          \* the calls the last run of the script made
  session_state,  \* st.session_state
  widget_seed,    \* the value the text area on the page was created with
  widget_value,   \* the text in the text area
  screen,         \* what the last run rendered below the text area
  last_event      \* the event that started the last run

scraperVars ==
  <<pc, page_i, soup, rows, all_data, dedup_i, seen, unique_data, kept,
    fetched, files, log>>
callVars == <<arg, ret>>
appVars ==
  <<artifacts, cache, loads, calls, session_state, widget_seed, widget_value,
    screen, last_event>>
vars ==
  <<pc, page_i, soup, rows, all_data, dedup_i, seen, unique_data, kept,
    fetched, files, log, arg, ret, artifacts, cache, loads, calls,
    session_state, widget_seed, widget_value, screen, last_event>>

Event(op, a, result) == [op |-> op, arg |-> a, result |-> result]

\* ------------------------------------------------------------------------
\* scraper.py as a state machine: __main__ calling build_comprehensive_dataset
\* ------------------------------------------------------------------------

\* The page's variables while the scraper runs.
AppIdle ==
  /\ artifacts = [model |-> NoModel, tfidf |-> FALSE]
  /\ cache = NoModel
  /\ loads = 0
  /\ calls = <<>>
  /\ session_state = <<>>
  /\ widget_seed = ""
  /\ widget_value = ""
  /\ screen = <<>>
  /\ last_event = UiEvent("", "")

ScraperInit ==
  /\ AppIdle
  /\ pc = "fetch"
  /\ page_i = 1
  /\ soup = None
  /\ rows = <<>>
  /\ all_data = <<>>
  /\ dedup_i = 1
  /\ seen = {}
  /\ unique_data = <<>>
  /\ kept = {}
  /\ fetched = <<>>
  /\ files \in Directories
  /\ log = <<>>
  /\ arg = ""
  /\ ret = ""

\* FetchPage in which a failed request propagates instead of returning None.
FetchPage_raises ==
  /\ pc = "fetch"
  /\ \E outcome \in FetchOutcomes(PAGES[page_i].name) :
       /\ soup' = outcome
       /\ fetched' = Append(fetched, outcome)
       /\ log' = Append(log, Event("fetch", BASE_URL \o PAGES[page_i].path,
                                   IF outcome.is_none THEN "error" ELSE "ok"))
       /\ pc' = IF outcome.is_none THEN "crashed" ELSE "sleep"
  /\ UNCHANGED <<appVars, page_i, rows, all_data, dedup_i, seen, unique_data, kept,
                 files, arg, ret>>

\* FetchPage in which the delay is taken only after a successful request.
FetchPage_no_sleep_on_error ==
  /\ pc = "fetch"
  /\ \E outcome \in FetchOutcomes(PAGES[page_i].name) :
       /\ soup' = outcome
       /\ fetched' = Append(fetched, outcome)
       /\ log' = Append(log, Event("fetch", BASE_URL \o PAGES[page_i].path,
                                   IF outcome.is_none THEN "error" ELSE "ok"))
       /\ pc' = IF outcome.is_none THEN "scrape" ELSE "sleep"
  /\ UNCHANGED <<appVars, page_i, rows, all_data, dedup_i, seen, unique_data, kept,
                 files, arg, ret>>

\* soup = fetch_page(url)
FetchPage ==
  /\ pc = "fetch"
  /\ \E outcome \in FetchOutcomes(PAGES[page_i].name) :
       /\ soup' = outcome
       /\ fetched' = Append(fetched, outcome)
       /\ log' = Append(log, Event("fetch", BASE_URL \o PAGES[page_i].path,
                                   IF outcome.is_none THEN "error" ELSE "ok"))
  /\ pc' = "sleep"
  /\ UNCHANGED <<appVars, page_i, rows, all_data, dedup_i, seen, unique_data, kept,
                 files, arg, ret>>

\* time.sleep(1)
Sleep ==
  /\ pc = "sleep"
  /\ log' = Append(log, Event("sleep", "1", "ok"))
  /\ pc' = "scrape"
  /\ UNCHANGED <<appVars, page_i, soup, rows, all_data, dedup_i, seen, unique_data,
                 kept, fetched, files, arg, ret>>

\* ScrapeAndExtend that goes back to fetch the same page when it got None.
ScrapeAndExtend_retry ==
  /\ pc = "scrape"
  /\ rows' = rows \o ScrapePage(PAGES[page_i].name, soup)
  /\ IF soup.is_none
     THEN page_i' = page_i /\ pc' = "fetch"
     ELSE IF page_i < Len(PAGES)
          THEN page_i' = page_i + 1 /\ pc' = "fetch"
          ELSE page_i' = page_i /\ pc' = "enrich"
  /\ UNCHANGED <<appVars, soup, all_data, dedup_i, seen, unique_data, kept, fetched,
                 files, log, arg, ret>>

\* rows.extend(scrape_...(soup)) and the step of the for loop
ScrapeAndExtend ==
  /\ pc = "scrape"
  /\ rows' = rows \o ScrapePage(PAGES[page_i].name, soup)
  /\ IF page_i < Len(PAGES)
     THEN page_i' = page_i + 1 /\ pc' = "fetch"
     ELSE page_i' = page_i /\ pc' = "enrich"
  /\ UNCHANGED <<appVars, soup, all_data, dedup_i, seen, unique_data, kept, fetched,
                 files, log, arg, ret>>

\* The literal blocks appended after the loop, and the return to __main__.
Enrich ==
  /\ pc = "enrich"
  /\ rows' = rows \o EnrichmentRows
  /\ all_data' = rows'
  /\ pc' = "dedup"
  /\ UNCHANGED <<appVars, page_i, soup, dedup_i, seen, unique_data, kept, fetched,
                 files, log, arg, ret>>

\* One iteration of the dedup loop of __main__.
DedupRow ==
  /\ pc = "dedup"
  /\ dedup_i <= Len(all_data)
  /\ LET st == DedupStep([seen |-> seen, unique_data |-> unique_data],
                         all_data[dedup_i])
     IN /\ seen' = st.seen
        /\ unique_data' = st.unique_data
        /\ kept' = IF Len(st.unique_data) > Len(unique_data)
                   THEN kept \cup {dedup_i}
                   ELSE kept
  /\ dedup_i' = dedup_i + 1
  /\ UNCHANGED <<appVars, pc, page_i, soup, rows, all_data, fetched, files, log, arg, ret>>

\* The dedup loop has gone through all_data; __main__ goes on to the write.
DedupExit ==
  /\ pc = "dedup"
  /\ dedup_i > Len(all_data)
  /\ pc' = "save"
  /\ UNCHANGED <<appVars, page_i, soup, rows, all_data, dedup_i, seen, unique_data,
                 kept, fetched, files, log, arg, ret>>

\* SavePrimary after which the alternate path is written as well.
SavePrimary_then_fallback ==
  /\ pc = "save"
  /\ \E o \in WriteOutcomes(unique_data) :
       /\ log' = Append(log, Event("save", PRIMARY_PATH, o.result))
       /\ files' = [files EXCEPT
                      ![PRIMARY_PATH] = save_to_csv(@, unique_data, o)]
       /\ pc' = CASE o.result = "ok" -> "fallback"
                  [] o.result = "PermissionError" -> "fallback"
                  [] OTHER -> "crashed"
  /\ UNCHANGED <<appVars, page_i, soup, rows, all_data, dedup_i, seen, unique_data,
                 kept, fetched, arg, ret>>

\* SavePrimary without the except clause: every failure ends the run.
SavePrimary_no_fallback ==
  /\ pc = "save"
  /\ \E o \in WriteOutcomes(unique_data) :
       /\ log' = Append(log, Event("save", PRIMARY_PATH, o.result))
       /\ files' = [files EXCEPT
                      ![PRIMARY_PATH] = save_to_csv(@, unique_data, o)]
       /\ pc' = IF o.result = "ok" THEN "done" ELSE "crashed"
  /\ UNCHANGED <<appVars, page_i, soup, rows, all_data, dedup_i, seen, unique_data,
                 kept, fetched, arg, ret>>

\* try: save_to_csv(unique_data, "Omoding.csv") / except PermissionError
SavePrimary ==
  /\ pc = "save"
  /\ \E o \in WriteOutcomes(unique_data) :
       /\ log' = Append(log, Event("save", PRIMARY_PATH, o.result))
       /\ files' = [files EXCEPT
                      ![PRIMARY_PATH] = save_to_csv(@, unique_data, o)]
       /\ pc' = CASE o.result = "ok" -> "done"
                  [] o.result = "PermissionError" -> "fallback"
                  [] OTHER -> "crashed"
  /\ UNCHANGED <<appVars, page_i, soup, rows, all_data, dedup_i, seen, unique_data,
                 kept, fetched, arg, ret>>

\* SaveFallback that writes all_data, the list before deduplication.
SaveFallback_all_data ==
  /\ pc = "fallback"
  /\ \E o \in WriteOutcomes(all_data) :
       /\ log' = Append(log, Event("save", FALLBACK_PATH, o.result))
       /\ files' = [files EXCEPT
                      ![FALLBACK_PATH] = save_to_csv(@, all_data, o)]
       /\ pc' = IF o.result = "ok" THEN "done" ELSE "crashed"
  /\ UNCHANGED <<appVars, page_i, soup, rows, all_data, dedup_i, seen, unique_data,
                 kept, fetched, arg, ret>>

\* save_to_csv(unique_data, "Omoding_new.csv") inside the except block
SaveFallback ==
  /\ pc = "fallback"
  /\ \E o \in WriteOutcomes(unique_data) :
       /\ log' = Append(log, Event("save", FALLBACK_PATH, o.result))
       /\ files' = [files EXCEPT
                      ![FALLBACK_PATH] = save_to_csv(@, unique_data, o)]
       /\ pc' = IF o.result = "ok" THEN "done" ELSE "crashed"
  /\ UNCHANGED <<appVars, page_i, soup, rows, all_data, dedup_i, seen, unique_data,
                 kept, fetched, arg, ret>>

ScraperNext ==
  \/ FetchPage
  \/ Sleep
  \/ ScrapeAndExtend
  \/ Enrich
  \/ DedupRow
  \/ DedupExit
  \/ SavePrimary
  \/ SaveFallback

ScraperSpec == ScraperInit /\ [][ScraperNext]_vars

\* ------------------------------------------------------------------------
\* The dedup loop on its own, over every short row list
\* ------------------------------------------------------------------------

\* Longest row list the dedup loop is run on.
MaxRows == 3

\* Descriptions that differ in case, in outer and in inner whitespace, and
\* that lie on both sides of the length limit of the loop.
DescPool ==
  {"Grilled Salmon", "grilled salmon", "  Grilled Salmon\n", "Grilled  Salmon",
   "Wines", " WINES ", "Drinks", "\tdrinks", "", "CAFÉ LATTE",
   "Café Latte" \o NBSP}

RowPool ==
  {Row("home", "description", "", d, "") : d \in DescPool}
    \cup {Row("food", "Mains", "Grilled Salmon", "GRILLED SALMON", "45"),
          Row("drinks", "Cold Beverages", "Water", "Water", "5")}

BoundedSeq(S, n) == UNION {[1..k -> S] : k \in 0..n}

DedupInit ==
  /\ AppIdle
  /\ pc = "dedup"
  /\ page_i = Len(PAGES)
  /\ soup = None
  /\ all_data \in BoundedSeq(RowPool, MaxRows)
  /\ rows = all_data
  /\ dedup_i = 1
  /\ seen = {}
  /\ unique_data = <<>>
  /\ kept = {}
  /\ fetched = <<>>
  /\ files = [p \in {PRIMARY_PATH, FALLBACK_PATH} |-> NoFile]
  /\ log = <<>>
  /\ arg = ""
  /\ ret = ""

DedupNext == DedupRow \/ DedupExit

DedupSpec == DedupInit /\ [][DedupNext]_vars

\* ------------------------------------------------------------------------
\* is_noise on its own, over a set of texts
\* ------------------------------------------------------------------------

\* Longest run of padding put around a text.
MaxPad == 2

RECURSIVE Repeat(_, _)
Repeat(c, k) == IF k = 0 THEN "" ELSE c \o Repeat(c, k - 1)

Pads == {Repeat(c, k) : c \in {" ", "\n", NBSP}, k \in 0..MaxPad}

NoiseCores ==
  {"", "Menu", "Energy drink", "Grilled salmon", "Grilled salmon!",
   "a b c d e f g h", "12345", "123456789012345", "Exquisite Recipes",
   "Exquisite Recipes of Kampala", "Lorem ipsum dolor sit amet",
   "Fresh juice © 2024 Hickory", "Food Drinks Wines All Drinks Cake Events",
   "See the Food Drinks Wines All Drinks Cake Events bar",
   "The restaurant is designed by Fortitude Solutions",
   "Chef specials and fine wines"}

NoiseInputs == {l \o c \o r : l \in Pads, c \in NoiseCores, r \in Pads}

NoiseInit ==
  /\ AppIdle
  /\ pc = "call"
  /\ page_i = 1
  /\ soup = None
  /\ rows = <<>>
  /\ all_data = <<>>
  /\ dedup_i = 1
  /\ seen = {}
  /\ unique_data = <<>>
  /\ kept = {}
  /\ fetched = <<>>
  /\ files = [p \in {PRIMARY_PATH, FALLBACK_PATH} |-> NoFile]
  /\ log = <<>>
  /\ arg \in NoiseInputs
  /\ ret = FALSE

\* ret = is_noise(arg)
CallIsNoise ==
  /\ pc = "call"
  /\ ret' = is_noise(arg)
  /\ pc' = "return"
  /\ UNCHANGED <<appVars, page_i, soup, rows, all_data, dedup_i, seen, unique_data,
                 kept, fetched, files, log, arg>>

NoiseNext == CallIsNoise

NoiseSpec == NoiseInit /\ [][NoiseNext]_vars

\* ------------------------------------------------------------------------
\* app.py: the page as a state machine. Every event of the page runs the
\* script from the top; a state is what a finished run leaves behind.
\* ------------------------------------------------------------------------

\* The scraper's variables while the page runs.
ScraperIdle ==
  /\ pc = "app"
  /\ page_i = 1
  /\ soup = None
  /\ rows = <<>>
  /\ all_data = <<>>
  /\ dedup_i = 1
  /\ seen = {}
  /\ unique_data = <<>>
  /\ kept = {}
  /\ fetched = <<>>
  /\ files = [p \in {PRIMARY_PATH, FALLBACK_PATH} |-> NoFile]
  /\ log = <<>>
  /\ arg = ""
  /\ ret = ""

\* The first run of the script: load_model() loads the artifacts or raises;
\* a run that gets past it sets session_state.input_text and draws the
\* empty text area.
AppInit ==
  /\ ScraperIdle
  /\ artifacts \in Artifacts
  /\ cache = load_model(artifacts).value
  /\ loads = 1
  /\ calls = load_model(artifacts).calls
  /\ session_state = IF load_model(artifacts).raised THEN <<>>
                     ELSE [input_text |-> ""]
  /\ widget_seed = ""
  /\ widget_value = ""
  /\ screen = IF load_model(artifacts).raised
              THEN <<Out("exception", "load_model")>> ELSE <<>>
  /\ last_event = UiEvent("Start", "")

\* The widgets exist once a run has got past load_model().
PageDrawn == cache.exists

\* st.rerun() has been called: the run of the Example button has ended
\* there and the run it asked for has not been made yet.  That run is the
\* next thing to happen.
RerunRequested == last_event.op = "Example"

\* A run of the script that an event of the page can start.
Ready == PageDrawn /\ ~RerunRequested

\* st.text_area(..., value=value): a text area keeps what the user typed
\* for as long as it is created with the same value; created with another
\* value it is a new widget showing that value.
text_area(value) == IF value = widget_seed THEN widget_value ELSE value

FieldTexts ==
  {"", "   ", " \n\t" \o NBSP \o VT, "to a in it at be", "12 & 7!",
   "The chefs were cooking delicious meals", examples[5] \o " "}

\* The user changes the text of the field: the script runs with no button
\* pressed.
EditField(t) ==
  /\ Ready
  /\ t # widget_value
  /\ widget_value' = t
  /\ widget_seed' = session_state.input_text
  /\ screen' = <<>>
  /\ calls' = <<>>
  /\ last_event' = UiEvent("Edit", t)
  /\ UNCHANGED <<artifacts, cache, loads, session_state>>
  /\ UNCHANGED <<scraperVars, callVars>>

\* ClickClassify in which a text that preprocess empties gets the warning.
ClickClassify_rejects_empty ==
  /\ Ready
  /\ LET user_input == text_area(session_state.input_text)
     IN /\ IF strip(user_input) # "" /\ preprocess(user_input) # ""
           THEN \E processed \in {preprocess(user_input)},
                   prediction \in {cache.classes[k] : k \in 1..Len(cache.classes)},
                   proba \in ProbaRows(cache.classes) :
                  LET r == classify_text(cache, user_input, processed,
                                         prediction, proba)
                  IN calls' = r.calls /\ screen' = r.screen
           ELSE /\ calls' = <<>>
                /\ screen' = <<Out("warning", WARNING_TEXT)>>
        /\ widget_value' = user_input
        /\ widget_seed' = session_state.input_text
        /\ last_event' = UiEvent("Classify", user_input)
  /\ UNCHANGED <<artifacts, cache, loads, session_state>>
  /\ UNCHANGED <<scraperVars, callVars>>

\* ClickClassify in which the field is tested without strip().
ClickClassify_no_strip ==
  /\ Ready
  /\ LET user_input == text_area(session_state.input_text)
     IN /\ IF user_input # ""
           THEN \E processed \in {preprocess(user_input)},
                   prediction \in {cache.classes[k] : k \in 1..Len(cache.classes)},
                   proba \in ProbaRows(cache.classes) :
                  LET r == classify_text(cache, user_input, processed,
                                         prediction, proba)
                  IN calls' = r.calls /\ screen' = r.screen
           ELSE /\ calls' = <<>>
                /\ screen' = <<Out("warning", WARNING_TEXT)>>
        /\ widget_value' = user_input
        /\ widget_seed' = session_state.input_text
        /\ last_event' = UiEvent("Classify", user_input)
  /\ UNCHANGED <<artifacts, cache, loads, session_state>>
  /\ UNCHANGED <<scraperVars, callVars>>

\* The Classify button: the script runs with the button pressed.
ClickClassify ==
  /\ Ready
  /\ LET user_input == text_area(session_state.input_text)
     IN /\ IF strip(user_input) # ""
           THEN \E processed \in {preprocess(user_input)},
                   prediction \in {cache.classes[k] : k \in 1..Len(cache.classes)},
                   proba \in ProbaRows(cache.classes) :
                  LET r == classify_text(cache, user_input, processed,
                                         prediction, proba)
                  IN calls' = r.calls /\ screen' = r.screen
           ELSE /\ calls' = <<>>
                /\ screen' = <<Out("warning", WARNING_TEXT)>>
        /\ widget_value' = user_input
        /\ widget_seed' = session_state.input_text
        /\ last_event' = UiEvent("Classify", user_input)
  /\ UNCHANGED <<artifacts, cache, loads, session_state>>
  /\ UNCHANGED <<scraperVars, callVars>>

\* ClickExample in which the run of the button classifies the example
\* before it calls st.rerun().
ClickExample_classifies(i) ==
  /\ Ready
  /\ LET ex == examples[i]
     IN /\ session_state' = [session_state EXCEPT !.input_text = ex]
        /\ widget_value' = text_area(session_state.input_text)
        /\ widget_seed' = session_state.input_text
        /\ last_event' = UiEvent("Example", ex)
        /\ \E processed \in {preprocess(ex)},
              prediction \in {cache.classes[k] : k \in 1..Len(cache.classes)},
              proba \in ProbaRows(cache.classes) :
             LET r == classify_text(cache, ex, processed, prediction, proba)
             IN calls' = r.calls /\ screen' = r.screen
  /\ UNCHANGED <<artifacts, cache, loads>>
  /\ UNCHANGED <<scraperVars, callVars>>

\* The button Example i: the script runs with the button pressed.  The text
\* area is drawn with the text stored so far, the Classify button is not
\* pressed, the example is stored in session_state.input_text and
\* st.rerun() ends the run.
ClickExample(i) ==
  /\ Ready
  /\ LET ex == examples[i]
     IN /\ session_state' = [session_state EXCEPT !.input_text = ex]
        /\ widget_value' = text_area(session_state.input_text)
        /\ widget_seed' = session_state.input_text
        /\ last_event' = UiEvent("Example", ex)
  /\ screen' = <<>>
  /\ calls' = <<>>
  /\ UNCHANGED <<artifacts, cache, loads>>
  /\ UNCHANGED <<scraperVars, callVars>>

\* The run that st.rerun() starts: the script runs from the top with no
\* button pressed and draws the text area with the stored example.
RerunAfterExample ==
  /\ PageDrawn
  /\ RerunRequested
  /\ widget_value' = text_area(session_state.input_text)
  /\ widget_seed' = session_state.input_text
  /\ screen' = <<>>
  /\ calls' = <<>>
  /\ last_event' = UiEvent("st.rerun", last_event.arg)
  /\ UNCHANGED <<artifacts, cache, loads, session_state>>
  /\ UNCHANGED <<scraperVars, callVars>>

\* How many times the model tries a load that fails.
MaxLoads == 3

\* Rerun without st.cache_resource: every run loads the artifacts.
Rerun_uncached ==
  /\ ~RerunRequested
  /\ loads < MaxLoads
  /\ loads' = loads + 1
  /\ IF PageDrawn
     THEN /\ calls' = load_model(artifacts).calls
          /\ screen' = <<>>
          /\ widget_value' = text_area(session_state.input_text)
          /\ widget_seed' = session_state.input_text
     ELSE /\ calls' = load_model(artifacts).calls
          /\ screen' = <<Out("exception", "load_model")>>
          /\ UNCHANGED <<widget_value, widget_seed>>
  /\ last_event' = UiEvent("Rerun", "")
  /\ UNCHANGED <<artifacts, cache, session_state>>
  /\ UNCHANGED <<scraperVars, callVars>>

\* The script runs again with nothing changed (the Rerun command of the
\* page). st.cache_resource keeps a value, never an exception: while the
\* load fails, every run calls load_model() again.
Rerun ==
  /\ ~RerunRequested
  /\ IF PageDrawn
     THEN /\ calls' = <<>>
          /\ screen' = <<>>
          /\ widget_value' = text_area(session_state.input_text)
          /\ widget_seed' = session_state.input_text
          /\ UNCHANGED <<cache, loads>>
     ELSE /\ loads < MaxLoads
          /\ loads' = loads + 1
          /\ calls' = load_model(artifacts).calls
          /\ screen' = <<Out("exception", "load_model")>>
          /\ UNCHANGED <<cache, widget_value, widget_seed>>
  /\ last_event' = UiEvent("Rerun", "")
  /\ UNCHANGED <<artifacts, session_state>>
  /\ UNCHANGED <<scraperVars, callVars>>

AppNext ==
  \/ \E t \in FieldTexts : EditField(t)
  \/ ClickClassify
  \/ \E i \in 1..Len(examples) : ClickExample(i)
  \/ RerunAfterExample
  \/ Rerun

AppSpec == AppInit /\ [][AppNext]_vars

\* ------------------------------------------------------------------------
\* preprocess applied on its own to texts of up to MaxWords words
\* ------------------------------------------------------------------------

MaxWords == 2

WordPool ==
  {"Goes", "owns", "leaves", "cake", "the", "to", "at", "7!", "cannot",
   "frostings", "ok", "It", "CAFÉ"}

PreInputs ==
  {JoinSpace(ws) : ws \in BoundedSeq(WordPool, MaxWords)}

PreInit ==
  /\ AppIdle
  /\ pc = "call"
  /\ page_i = 1
  /\ soup = None
  /\ rows = <<>>
  /\ all_data = <<>>
  /\ dedup_i = 1
  /\ seen = {}
  /\ unique_data = <<>>
  /\ kept = {}
  /\ fetched = <<>>
  /\ files = [p \in {PRIMARY_PATH, FALLBACK_PATH} |-> NoFile]
  /\ log = <<>>
  /\ arg \in PreInputs
  /\ ret = ""

\* ret = preprocess(arg)
CallPreprocess ==
  /\ pc = "call"
  /\ ret' = preprocess(arg)
  /\ pc' = "done"
  /\ UNCHANGED <<appVars, page_i, soup, rows, all_data, dedup_i, seen,
                 unique_data, kept, fetched, files, log, arg>>

PreNext == CallPreprocess

PreSpec == PreInit /\ [][PreNext]_vars

\* ------------------------------------------------------------------------
\* Properties of the dedup loop (checked under DedupSpec)
\* ------------------------------------------------------------------------

\* A description trimmed of outer whitespace and lower-cased.
Normalized(d) == lower(strip(d))

RECURSIVE Squash(_)
\* A description lower-cased and with every whitespace character removed.
Squash(d) ==
  IF d = "" THEN ""
  ELSE (IF Ch(d, 1) \in Whitespace THEN "" ELSE LowerChar(Ch(d, 1)))
         \o Squash(SubSeq(d, 2, Len(d)))

DedupFinished == pc = "save"

\* C1: once the dedup loop has finished, no two rows of unique_data (the
\* rows that are written) have the same trimmed, lower-cased description.
C1_NoTwoRowsShareKey ==
  DedupFinished =>
    \A i, j \in 1..Len(unique_data) :
      i # j => Normalized(unique_data[i].description)
                 # Normalized(unique_data[j].description)

\* The loop has finished on an input holding two rows whose descriptions
\* differ but have the same key, and one of them was kept.
C1_Witness ==
  /\ DedupFinished
  /\ \E i, j \in 1..Len(all_data) :
       /\ i < j
       /\ all_data[i].description # all_data[j].description
       /\ Normalized(all_data[i].description) = Normalized(all_data[j].description)
       /\ i \in kept

\* C2 as stated: of any two input rows whose descriptions differ only by
\* letter case and/or whitespace, exactly one is kept.
C2_Original ==
  DedupFinished =>
    \A i, j \in 1..Len(all_data) :
      (/\ i < j
       /\ all_data[i].description # all_data[j].description
       /\ Squash(all_data[i].description) = Squash(all_data[j].description))
        => Cardinality({i, j} \cap kept) = 1

\* C2 amended: of any two input rows whose descriptions differ only by
\* letter case and/or leading and trailing whitespace, and whose normalized
\* description is longer than 5 characters, at most one is kept, and
\* exactly one input row with that normalized description is kept.
C2_OneSurvivorPerKey ==
  DedupFinished =>
    \A i, j \in 1..Len(all_data) :
      (/\ i < j
       /\ Normalized(all_data[i].description) = Normalized(all_data[j].description)
       /\ Len(Normalized(all_data[i].description)) > 5)
        => /\ Cardinality({i, j} \cap kept) <= 1
           /\ Cardinality({k \in kept :
                 Normalized(all_data[k].description)
                   = Normalized(all_data[i].description)}) = 1

\* The loop has finished on two rows that differ in case or outer
\* whitespace only and have a long enough key; the first one was kept.
C2_Witness ==
  /\ DedupFinished
  /\ \E i, j \in 1..Len(all_data) :
       /\ i < j
       /\ all_data[i].description # all_data[j].description
       /\ Normalized(all_data[i].description) = Normalized(all_data[j].description)
       /\ Len(Normalized(all_data[i].description)) > 5
       /\ i \in kept
       /\ j \notin kept

\* C3: once the loop has finished, no input row whose normalized
\* description has 5 characters or fewer was kept or occurs in unique_data,
\* and every row of unique_data has a normalized description longer than 5;
\* the source page of the row (scraped or enrichment) makes no difference.
C3_ShortRowsDropped ==
  DedupFinished =>
    /\ \A i \in 1..Len(all_data) :
         Len(Normalized(all_data[i].description)) <= 5 =>
           /\ i \notin kept
           /\ \A k \in 1..Len(unique_data) : unique_data[k] # all_data[i]
    /\ \A k \in 1..Len(unique_data) :
         Len(Normalized(unique_data[k].description)) > 5

\* The loop has finished on an input with a scraped-page row and an
\* enrichment row whose keys are exactly 5 long, and one of 6 that was kept.
C3_Witness ==
  /\ DedupFinished
  /\ \E i, j, k \in 1..Len(all_data) :
       /\ all_data[i].source_page = "home"
       /\ Len(Normalized(all_data[i].description)) = 5
       /\ all_data[j].item_name # ""
       /\ Len(Normalized(all_data[j].description)) = 5
       /\ Len(Normalized(all_data[k].description)) = 6
       /\ k \in kept

\* ------------------------------------------------------------------------
\* Properties of is_noise (checked under NoiseSpec)
\* ------------------------------------------------------------------------

\* C4: is_noise returns True for every text shorter than 15 characters.
C4_ShortTextIsNoise ==
  (pc = "return" /\ Len(arg) < 15) => ret = TRUE

\* is_noise has returned for a text of 10 to 14 characters that none of the
\* noise patterns matches.
C4_Witness ==
  /\ pc = "return"
  /\ Len(arg) < 15
  /\ Len(strip(arg)) >= 10
  /\ ~\E k \in 1..Len(NOISE_PATTERNS) : Search(NOISE_PATTERNS[k], lower(strip(arg)))
  /\ ret = TRUE

\* ------------------------------------------------------------------------
\* Properties of a run of the dataset builder (checked under ScraperSpec)
\* ------------------------------------------------------------------------

\* build_comprehensive_dataset has just returned to __main__.
BuildReturned == pc = "dedup" /\ dedup_i = 1

\* The run is over, normally or with an exception.
RunEnded == pc \in {"done", "crashed"}

FetchEvents == SelectSeq(log, LAMBDA e : e.op = "fetch")
SaveEvents(path) == SelectSeq(log, LAMBDA e : e.op = "save" /\ e.arg = path)

\* The rows the pages fetched so far should have given, page by page: none
\* for a page whose fetch returned None.
RECURSIVE ExpectedScraped(_)
ExpectedScraped(k) ==
  IF k = 0 THEN <<>>
  ELSE ExpectedScraped(k - 1)
         \o (IF fetched[k].is_none THEN <<>>
             ELSE ScrapePage(PAGES[k].name, fetched[k]))

\* C5: whichever of the seven fetches fail, the build does not raise, each
\* failed page gives no row, the other pages are fetched and scraped, and
\* the 289 enrichment rows follow the scraped rows.
C5_FailedFetchesAreSkipped ==
  /\ pc = "crashed" => (log # <<>> /\ log[Len(log)].op = "save")
  /\ BuildReturned =>
       /\ Len(fetched) = 7
       /\ Len(all_data) >= 289
       /\ SubSeq(all_data, 1, Len(all_data) - 289) = ExpectedScraped(7)
       /\ SubSeq(all_data, Len(all_data) - 288, Len(all_data)) = EnrichmentRows
       /\ \A k \in 1..7 :
            fetched[k].is_none =>
              \A i \in 1..(Len(all_data) - 289) :
                all_data[i].source_page # PAGES[k].name

\* The build has returned after a failed fetch that was followed by a
\* successful one whose rows are in the result.
C5_Witness ==
  /\ BuildReturned
  /\ \E k, m \in 1..7 :
       /\ k < m
       /\ fetched[k].is_none
       /\ ~fetched[m].is_none
       /\ \E i \in 1..(Len(all_data) - 289) :
            all_data[i].source_page = PAGES[m].name

SevenUrls ==
  << "https://thehickorykampala.com/",
     "https://thehickorykampala.com/food/",
     "https://thehickorykampala.com/drinks/",
     "https://thehickorykampala.com/wines/",
     "https://thehickorykampala.com/cake/",
     "https://thehickorykampala.com/category/events/",
     "https://thehickorykampala.com/contact-us/" >>

\* C6: the requests of a run are, in order, those of home, food, drinks,
\* wines, cake, events and contact, each made once whatever the outcome of
\* the earlier ones; once the loop is over all seven have been made.
C6_EachPageRequestedOnceInOrder ==
  /\ Len(FetchEvents) <= 7
  /\ \A k \in 1..Len(FetchEvents) : FetchEvents[k].arg = SevenUrls[k]
  /\ pc \notin {"fetch", "sleep", "scrape"} => Len(FetchEvents) = 7

\* The loop is over and a failed request was followed by later requests.
C6_Witness ==
  /\ pc = "enrich"
  /\ Len(FetchEvents) = 7
  /\ FetchEvents[2].result = "error"
  /\ FetchEvents[3].result = "ok"
  /\ FetchEvents[7].result = "error"

\* C7: between any two fetches of a run there is a completed one-second
\* sleep, whether the earlier fetch succeeded or failed.
C7_SleepBetweenFetches ==
  \A i, j \in 1..Len(log) :
    (i < j /\ log[i].op = "fetch" /\ log[j].op = "fetch") =>
      \E k \in (i + 1)..(j - 1) : log[k].op = "sleep" /\ log[k].arg = "1"

\* A fetch has been made after a failed fetch.
C7_Witness ==
  \E i, j \in 1..Len(log) :
    /\ i < j
    /\ log[i].op = "fetch" /\ log[i].result = "error"
    /\ log[j].op = "fetch"

PrimaryLocked ==
  \E k \in 1..Len(log) : log[k] = Event("save", "Omoding.csv", "PermissionError")

\* What a file written from unique_data holds: the header, then the rows
\* in order.
ExpectedOutput ==
  [exists |-> TRUE,
   header |-> <<"source_page", "category", "item_name", "description", "price">>,
   records |-> [i \in 1..Len(unique_data) |->
                  << unique_data[i].source_page, unique_data[i].category,
                     unique_data[i].item_name, unique_data[i].description,
                     unique_data[i].price >>]]

\* C8 as stated: when the primary path is locked the run does not fail and
\* the alternate path receives the deduplicated list.
C8_Original ==
  (PrimaryLocked /\ RunEnded) =>
    /\ pc = "done"
    /\ files["Omoding_new.csv"] = ExpectedOutput

\* C8 amended: when the primary path is locked, the write of the same
\* deduplicated list to the alternate path is attempted; if that write
\* succeeds the alternate file holds the header and the rows in order and
\* the run completes normally; if it fails too, the run fails.
C8_LockedPrimaryFallsBack ==
  PrimaryLocked =>
    /\ pc \in {"fallback", "done", "crashed"}
    /\ RunEnded => Len(SaveEvents("Omoding_new.csv")) = 1
    /\ pc = "done" =>
         /\ SaveEvents("Omoding_new.csv")[1].result = "ok"
         /\ files["Omoding_new.csv"] = ExpectedOutput
    /\ pc = "crashed" => SaveEvents("Omoding_new.csv")[1].result # "ok"

\* The run found the primary file of an earlier run locked, left it as it
\* was and completed through the alternate path, with a list from which
\* the dedup loop had removed rows.
C8_Witness ==
  /\ pc = "done"
  /\ PrimaryLocked
  /\ files["Omoding.csv"] = OLD_OUTPUT
  /\ files["Omoding_new.csv"] = ExpectedOutput
  /\ Len(unique_data) < Len(all_data)

\* C9 as stated: every failure of the primary write leads to the fallback
\* write, there is at most one fallback write, and the run is fatal only
\* when the fallback write failed too.
C9_Original ==
  /\ (RunEnded /\ \E k \in 1..Len(log) :
         log[k].op = "save" /\ log[k].arg = "Omoding.csv" /\ log[k].result # "ok")
       => Len(SaveEvents("Omoding_new.csv")) >= 1
  /\ Len(SaveEvents("Omoding_new.csv")) <= 1
  /\ pc = "crashed" =>
       \E k \in 1..Len(log) :
         log[k].op = "save" /\ log[k].arg = "Omoding_new.csv" /\ log[k].result # "ok"

\* C9 amended: a PermissionError of the primary write is recovered once
\* through the fallback path: the fallback write is attempted whenever the
\* primary write raised PermissionError and only then, at most once, and
\* the run is fatal exactly when the fallback write failed too or the
\* primary write failed with another error.
C9_PermissionErrorRecoveredOnce ==
  /\ (RunEnded /\ PrimaryLocked) => Len(SaveEvents("Omoding_new.csv")) = 1
  /\ Len(SaveEvents("Omoding_new.csv")) <= 1
  /\ Len(SaveEvents("Omoding.csv")) <= 1
  /\ Len(SaveEvents("Omoding_new.csv")) = 1 => PrimaryLocked
  /\ pc = "crashed" <=>
       \/ \E k \in 1..Len(log) :
            log[k].op = "save" /\ log[k].arg = "Omoding_new.csv" /\ log[k].result # "ok"
       \/ \E k \in 1..Len(log) :
            log[k].op = "save" /\ log[k].arg = "Omoding.csv"
              /\ log[k].result \notin {"ok", "PermissionError"}

\* The run ended fatally after both writes failed.
C9_Witness ==
  /\ pc = "crashed"
  /\ PrimaryLocked
  /\ Len(SaveEvents("Omoding_new.csv")) = 1
  /\ SaveEvents("Omoding_new.csv")[1].result # "ok"

\* ------------------------------------------------------------------------
\* C10: A Classify trigger fired while the field is empty or holds only
\* whitespace shows the warning and does nothing else: preprocess,
\* tfidf.transform and model.predict are not called, no result is rendered,
\* and session_state.input_text and the text of the field stay as they
\* were.
\* ------------------------------------------------------------------------
C10_BlankClassifyOnlyWarns ==
  [][(last_event'.op = "Classify" /\ strip(last_event'.arg) = "") =>
       /\ calls' = <<>>
       /\ screen' = <<Out("warning", WARNING_TEXT)>>
       /\ session_state' = session_state
       /\ widget_value' = widget_value]_vars

\* Classify was pressed on a field of blanks typed over a stored example.
C10_Witness ==
  /\ last_event.op = "Classify"
  /\ last_event.arg # ""
  /\ strip(last_event.arg) = ""
  /\ session_state.input_text \in {examples[i] : i \in 1..Len(examples)}
  /\ screen = <<Out("warning", WARNING_TEXT)>>
  /\ calls = <<>>

\* ------------------------------------------------------------------------
\* C11: After a click on Example i, whatever edits and example clicks came
\* before it, the text field shows the i-th example string once the run
\* that st.rerun() started has drawn the page.
\* ------------------------------------------------------------------------
C11_ExampleShown ==
  last_event.op = "st.rerun" => widget_value = last_event.arg

\* ------------------------------------------------------------------------
\* C12: A click on an example classifies nothing, and neither does any
\* other run that the Classify button did not start: such a run calls
\* neither the vectorizer nor the classifier and renders no prediction.
\* ------------------------------------------------------------------------
INFERENCE_FNS == {"tfidf.transform", "model.predict", "model.predict_proba"}
InferenceCalls(cs) == {k \in 1..Len(cs) : cs[k].fn \in INFERENCE_FNS}
ResultShown(scr) ==
  \E k \in 1..Len(scr) : scr[k].kind \in {"success", "progress"}

C12_OnlyClassifyClassifies ==
  last_event.op # "Classify" =>
    InferenceCalls(calls) = {} /\ ~ResultShown(screen)

\* An example was clicked: the field shows it, and the run that drew it
\* called nothing and rendered nothing.
C12_Witness ==
  /\ last_event.op = "st.rerun"
  /\ widget_value = last_event.arg
  /\ screen = <<>>
  /\ calls = <<>>

\* ------------------------------------------------------------------------
\* C13: Every token of what preprocess returns is made of lower-case
\* letters, is longer than 2 characters and is not a stopword.
\* ------------------------------------------------------------------------
IsLowerAlpha(t) == \A i \in 1..Len(t) : Ch(t, i) \in LowerLetters

C13_OutputTokensPassFilter ==
  pc = "done" =>
    \A k \in 1..Len(SplitWords(ret)) :
      LET t == SplitWords(ret)[k]
      IN IsLowerAlpha(t) /\ Len(t) > 2 /\ t \notin stop_words

\* ------------------------------------------------------------------------
\* C14: preprocess returns its own output unchanged:
\* preprocess(preprocess(s)) = preprocess(s) for every text s.
\* ------------------------------------------------------------------------
C14_PreprocessIdempotent ==
  pc = "done" => preprocess(ret) = ret

\* ------------------------------------------------------------------------
\* C15: A text all of whose tokens, after lower-casing and the blanking of
\* non-letters, are stopwords or at most 2 characters long, is preprocessed
\* to the empty string.
\* ------------------------------------------------------------------------
TokensOf(text) ==
  word_tokenize(strip(CollapseWhitespace(BlankNonLetters(lower(text)))))
AllFiltered(text) ==
  \A k \in 1..Len(TokensOf(text)) :
    TokensOf(text)[k] \in stop_words \/ Len(TokensOf(text)[k]) <= 2

C15_FilteredTextIsEmpty ==
  (pc = "done" /\ AllFiltered(arg)) => ret = ""

\* A text of a stopword and a two-letter word that is no stopword.
C15_Witness ==
  /\ pc = "done"
  /\ arg = "the ok"
  /\ ret = ""

\* ------------------------------------------------------------------------
\* C16: A Classify click on a text that is not blank but that preprocess
\* turns into the empty string is classified like any other text: the
\* empty string goes to tfidf.transform and model.predict, and the
\* prediction is rendered, with no warning and no error.
\* ------------------------------------------------------------------------
C16_EmptyNormalFormIsClassified ==
  (/\ last_event.op = "Classify"
   /\ strip(last_event.arg) # ""
   /\ preprocess(last_event.arg) = "") =>
    /\ Len(calls) >= 3
    /\ calls[1] = Call("preprocess", last_event.arg)
    /\ calls[2] = Call("tfidf.transform", <<"">>)
    /\ calls[3] = Call("model.predict", <<"">>)
    /\ screen[1].kind = "success"
    /\ \A k \in 1..Len(screen) : screen[k].kind \notin {"warning", "exception"}

\* Classify was clicked on a text of digits and punctuation.
C16_Witness ==
  /\ last_event.op = "Classify"
  /\ last_event.arg = "12 & 7!"
  /\ calls[2] = Call("tfidf.transform", <<"">>)
  /\ screen[1].kind = "success"

\* ------------------------------------------------------------------------
\* C17: A rendered distribution has one bar for each class of the
\* classifier, none left out and none twice, each with the probability of
\* its own class, and the bars are in non-increasing order of probability.
\* ------------------------------------------------------------------------
Bars(scr) == SelectSeq(scr, LAMBDA o : o.kind = "progress")
BarOf(classes, proba, i) ==
  Progress(proba[i], classes[i] \o ": " \o Percent(proba[i]))

C17_DistributionCompleteAndSorted ==
  Bars(screen) # <<>> =>
    LET bars == Bars(screen)
    IN /\ Len(bars) = Len(cache.classes)
       /\ \E proba \in ProbaRows(cache.classes) :
            \A i \in 1..Len(cache.classes) :
              Cardinality({r \in 1..Len(bars) :
                             bars[r] = BarOf(cache.classes, proba, i)}) = 1
       /\ \A r \in 1..(Len(bars) - 1) : bars[r].value >= bars[r + 1].value

\* A distribution of ten classes in which two classes tie for the top.
C17_Witness ==
  /\ Len(Bars(screen)) = 10
  /\ Bars(screen)[1].value = 300
  /\ Bars(screen)[2].value = 300
  /\ Bars(screen)[10].value = 10

\* ------------------------------------------------------------------------
\* C18: The description rendered under a prediction is the entry of
\* CATEGORY_INFO for the predicted label, and the label itself, unchanged,
\* when the label has no entry.
\* ------------------------------------------------------------------------
InCategoryInfo(label) ==
  \E k \in 1..Len(CATEGORY_INFO) : CATEGORY_INFO[k][1] = label
DescriptionOf(label) ==
  CATEGORY_INFO[CHOOSE k \in 1..Len(CATEGORY_INFO) :
                  CATEGORY_INFO[k][1] = label][2]

C18_DescriptionLookup ==
  (last_event.op = "Classify" /\ ResultShown(screen)) =>
    \E label \in {cache.classes[k] : k \in 1..Len(cache.classes)} :
      /\ screen[1] = Out("success",
                         "**Predicted Category: " \o upper(label) \o "**")
      /\ screen[2] = Out("markdown",
                         IF InCategoryInfo(label) THEN DescriptionOf(label)
                         ELSE label)

\* The classifier predicted a label that CATEGORY_INFO does not have.
C18_Witness ==
  /\ last_event.op = "Classify"
  /\ Len(screen) >= 2
  /\ screen[1].text = "**Predicted Category: MENU**"
  /\ screen[2].text = "menu"

\* ------------------------------------------------------------------------
\* C19: Over any sequence of events of the page, each of which runs the
\* script again, the artifacts are read from disk at most once, and that
\* read comes before every inference call.
\* ------------------------------------------------------------------------
C19_Original ==
  /\ artifacts.model.exists => loads <= 1
  /\ InferenceCalls(calls) # {} => loads = 1

\* As amended: load_model returns at most once in the life of the process,
\* in its first run, and every inference call comes after that; a
\* load_model that raises is not cached and runs again in every run.
C19_LoadedOnceWhenLoadSucceeds ==
  /\ cache.exists => (loads = 1 /\ ~load_model(artifacts).raised)
  /\ InferenceCalls(calls) # {} => (cache.exists /\ loads = 1)
  /\ ~cache.exists =>
       (load_model(artifacts).raised /\ calls = load_model(artifacts).calls)

\* A classification in a process that has run the script several times.
C19_Witness ==
  /\ last_event.op = "Classify"
  /\ InferenceCalls(calls) # {}
  /\ session_state.input_text # ""
  /\ cache.exists
  /\ loads = 1

\* ------------------------------------------------------------------------
\* C20: When the model or the vectorizer cannot be loaded, the failure
\* shows from the first run on and there is never an inference: no
\* Classify click reaches tfidf.transform or model.predict.
\* ------------------------------------------------------------------------
C20_FailedLoadNeverInfers ==
  (\/ ~artifacts.model.exists
   \/ ~artifacts.tfidf) =>
    /\ screen = <<Out("exception", "load_model")>>
    /\ InferenceCalls(calls) = {}
    /\ last_event.op \notin {"Classify", "Example", "st.rerun", "Edit"}
    /\ ~ENABLED ClickClassify

\* The vectorizer alone is missing and the script has run three times.
C20_Witness ==
  /\ artifacts.model.exists
  /\ ~artifacts.tfidf
  /\ loads = 3
  /\ screen = <<Out("exception", "load_model")>>

\* ------------------------------------------------------------------------
\* C21: A Classify click on a text that is not blank makes these calls, in
\* this order and once each: preprocess on the raw text, tfidf.transform on
\* the one-item list of the preprocessed text, model.predict on its result;
\* model.predict_proba is called after them, once, and only when the
\* classifier has it. When it has not, what is rendered is the predicted
\* label and its description, with no confidence and no distribution.
\* ------------------------------------------------------------------------
Accepted ==
  last_event.op = "Classify" /\ strip(last_event.arg) # ""

C21_CallsInOrder ==
  Accepted =>
    LET vec == <<preprocess(last_event.arg)>>
        first == <<Call("preprocess", last_event.arg),
                   Call("tfidf.transform", vec),
                   Call("model.predict", vec)>>
    IN /\ cache.has_proba =>
            calls = first \o <<Call("model.predict_proba", vec)>>
       /\ ~cache.has_proba =>
            /\ calls = first
            /\ Len(screen) = 2
            /\ screen[1].kind = "success"
            /\ screen[2].kind = "markdown"

\* A classifier without predict_proba classified an example.
C21_Witness ==
  /\ Accepted
  /\ ~cache.has_proba
  /\ last_event.arg = examples[2]
  /\ Len(calls) = 3
  /\ Len(screen) = 2

\* ------------------------------------------------------------------------
\* C22: In a run that completes exactly one write of the output succeeds,
\* to the primary path or to the alternate path and never to both, and no
\* write starts before the seven fetches, the appending of the enrichment
\* rows and the dedup loop are over.
\* ------------------------------------------------------------------------
AllSaveEvents == SelectSeq(log, LAMBDA e : e.op = "save")
FirstSave == CHOOSE i \in 1..Len(log) :
               log[i].op = "save" /\ \A j \in 1..(i - 1) : log[j].op # "save"

C22_OneWriteAfterTheBuild ==
  /\ pc = "done" =>
       /\ Cardinality({i \in 1..Len(log) :
                         log[i].op = "save" /\ log[i].result = "ok"}) = 1
       /\ \A i \in 1..Len(log) :
            (log[i].op = "save" /\ log[i].result = "ok") =>
              files[log[i].arg] = ExpectedOutput
  /\ AllSaveEvents # <<>> =>
       /\ Len(FetchEvents) = 7
       /\ \A j \in 1..Len(log) : log[j].op = "fetch" => j < FirstSave
       /\ Len(all_data) >= Len(EnrichmentRows)
       /\ SubSeq(all_data, Len(all_data) - Len(EnrichmentRows) + 1,
                 Len(all_data)) = EnrichmentRows
       /\ dedup_i = Len(all_data) + 1
       /\ pc \in {"fallback", "done", "crashed"}
  /\ pc \in {"fetch", "sleep", "scrape", "enrich", "dedup", "save"} =>
       files \in Directories

\* The run completed with its one write to the primary path, after a
\* build in which a fetch failed and a dedup loop that removed rows.
C22_Witness ==
  /\ pc = "done"
  /\ Len(SaveEvents(PRIMARY_PATH)) = 1
  /\ SaveEvents(FALLBACK_PATH) = <<>>
  /\ files[PRIMARY_PATH] = ExpectedOutput
  /\ \E k \in 1..7 : fetched[k].is_none
  /\ Len(unique_data) < Len(all_data)

\* ------------------------------------------------------------------------
\* C23: The dedup loop only removes rows. Its output is the input list
\* without some of its rows, the others in their order; of the rows of one
\* key the one that stays is the earliest in the input; and a row that
\* stays has its five fields as they were, the description in its own case
\* and spacing.
\* ------------------------------------------------------------------------
\* The positions of the input whose row is the first of its key.
EarliestOfKey ==
  {i \in 1..Len(all_data) :
     /\ Len(Normalized(all_data[i].description)) > 5
     /\ \A j \in 1..(i - 1) :
          Normalized(all_data[j].description)
            # Normalized(all_data[i].description)}

\* The rows of a list at the positions of a set, in the order of the list.
Pick(list, positions) ==
  [n \in 1..Cardinality(positions) |->
     list[CHOOSE i \in positions :
            Cardinality({j \in positions : j < i}) = n - 1]]

C23_DedupOnlyRemovesRows ==
  DedupFinished =>
    /\ unique_data = Pick(all_data, EarliestOfKey)
    /\ \A n \in 1..Len(unique_data) :
         DOMAIN unique_data[n] =
           {"source_page", "category", "item_name", "description", "price"}

\* A home row whose description has outer whitespace came before a food
\* row of the same key: the home row is the output, as it was.
C23_Witness ==
  /\ DedupFinished
  /\ Len(all_data) >= 2
  /\ all_data[1] = Row("home", "description", "", "  Grilled Salmon\n", "")
  /\ all_data[2] = Row("food", "Mains", "Grilled Salmon", "GRILLED SALMON", "45")
  /\ unique_data[1] = all_data[1]
  /\ \A n \in 1..Len(unique_data) : unique_data[n] # all_data[2]

\* ------------------------------------------------------------------------
\* C24: A row that scrape_home, scrape_menu_page or scrape_contact makes
\* from a fetched page has a description with no whitespace at either end,
\* with no two whitespace characters in a row, of at least 15 characters
\* and that is_noise does not reject, and has an empty item_name and an
\* empty price; a page whose fetch returned None gives no row.
\* ------------------------------------------------------------------------
\* While the loop over PAGES runs, rows holds the scraped rows only.
Scraping == pc \in {"fetch", "sleep", "scrape", "enrich"}

HasWhitespaceRun(d) ==
  \E i \in 1..(Len(d) - 1) :
    Ch(d, i) \in Whitespace /\ Ch(d, i + 1) \in Whitespace

C24_ScrapedRowsAreClean ==
  Scraping =>
    /\ \A n \in 1..Len(rows) :
         LET d == rows[n].description
         IN /\ d = strip(d)
            /\ ~HasWhitespaceRun(d)
            /\ Len(d) >= 15
            /\ ~is_noise(d)
            /\ rows[n].item_name = ""
            /\ rows[n].price = ""
    /\ \A k \in 1..Len(fetched) :
         fetched[k].is_none =>
           \A n \in 1..Len(rows) : rows[n].source_page # PAGES[k].name

\* The loop is over: the home page gave the row of a paragraph that had a
\* double space, a newline, a no-break space, typographic quotes and
\* dashes and a trailing space, and the food page, whose fetch failed,
\* gave none.
C24_Witness ==
  /\ pc = "enrich"
  /\ fetched[2].is_none
  /\ \E n \in 1..Len(rows) :
       /\ rows[n].source_page = "home"
       /\ rows[n].description =
            "The Hickory is Kampala's upscale restaurant and lounge - located in Kololo Uganda - known as \"The Woody Wine and Dine\" or 'the Woody'"
  /\ \E n \in 1..Len(rows) : rows[n].source_page = "contact"

\* ------------------------------------------------------------------------
\* C25: When a distribution is rendered, the label announced as the
\* predicted category is a label of the highest probability in it, and the
\* confidence shown is the probability the distribution gives that label.
\* ------------------------------------------------------------------------
\* The classes whose label is the one announced on the screen.
Announced ==
  {k \in 1..Len(cache.classes) :
     screen[1].text = "**Predicted Category: " \o upper(cache.classes[k]) \o "**"}
\* The bars of the class at position k of classes_.
BarsOfClass(k) ==
  {r \in 1..Len(Bars(screen)) :
     Bars(screen)[r].text
       = cache.classes[k] \o ": " \o Percent(Bars(screen)[r].value)}
ConfidenceLine(p) == Out("markdown", "**Confidence:** " \o Percent(p))

C25_Original ==
  Bars(screen) # <<>> =>
    \E k \in Announced : \E r \in BarsOfClass(k) :
      /\ \A q \in 1..Len(Bars(screen)) :
           Bars(screen)[r].value >= Bars(screen)[q].value
      /\ screen[3] = ConfidenceLine(Bars(screen)[r].value)

\* As amended: the confidence shown is the highest probability of the
\* distribution, the one of its first bar; the label announced is the one
\* model.predict returned, a class of the distribution whose probability
\* need not be the highest.
C25_ConfidenceIsTopProbability ==
  Bars(screen) # <<>> =>
    /\ screen[3] = ConfidenceLine(Bars(screen)[1].value)
    /\ \A q \in 1..Len(Bars(screen)) :
         Bars(screen)[1].value >= Bars(screen)[q].value
    /\ \E k \in Announced : BarsOfClass(k) # {}

\* The label announced has a lower probability than the first bar.
C25_Witness ==
  /\ Bars(screen) # <<>>
  /\ screen[1].text = "**Predicted Category: WINES**"
  /\ Bars(screen)[1].text = "about: 61.0%"
  /\ screen[3] = ConfidenceLine(610)

====
